---- MODULE Spec2Model ----
(***************************************************************************)
(* A model of the user-story MCP servers:                                  *)
(*   src/business_requirements_server.py  (BusinessRequirementsUserStory-  *)
(*                                         Server, GitHub documents)       *)
(*   src/server.py                        (UserStoryMCPServer, Google Docs)*)
(*                                                                         *)
(* Python strings are TLA+ strings; a position is a 1-based index, and a   *)
(* span gs..ge-1 is the text from position gs up to, not including, ge.    *)
(* The text is ASCII: the bullet U+2022 of the source, which a TLA+ string *)
(* cannot spell, is written BULLET, one character as in the source.        *)
(***************************************************************************)
EXTENDS Integers, Sequences, FiniteSets, TLC

\* ------------------------------------------------------------------------
\* Python str operations
\* ------------------------------------------------------------------------

BULLET == "@"

UPPER == "ABCDEFGHIJKLMNOPQRSTUVWXYZ"
LOWER == "abcdefghijklmnopqrstuvwxyz"
DIGITS == "0123456789"
\* What str.strip() and the pattern \s take for white space.
SPACES == " \t\n\r\f"

Ch(s, i) == SubSeq(s, i, i)

\* The characters of a string, as a set
Chars(s) == {Ch(s, k) : k \in 1..Len(s)}

Space == Chars(SPACES)
MinOf(S) == CHOOSE x \in S : \A y \in S : x <= y

\* sub in s
contains(s, sub) ==
    \E i \in 1..(Len(s) - Len(sub) + 1) : SubSeq(s, i, i + Len(sub) - 1) = sub

\* s.startswith(w)
startswith(s, w) == Len(w) <= Len(s) /\ SubSeq(s, 1, Len(w)) = w


to_lower == [c \in Chars(UPPER) |-> Ch(LOWER, CHOOSE k \in 1..Len(UPPER) : Ch(UPPER, k) = c)]
to_upper == [c \in Chars(LOWER) |-> Ch(UPPER, CHOOSE k \in 1..Len(LOWER) : Ch(LOWER, k) = c)]

\* parts[lo] + ... + parts[hi], `empty` when there is none
RECURSIVE concat_range(_, _, _, _)
concat_range(parts, lo, hi, empty) ==
    IF lo > hi THEN empty
    ELSE IF lo = hi THEN parts[lo]
    ELSE concat_range(parts, lo, (lo + hi) \div 2, empty)
         \o concat_range(parts, ((lo + hi) \div 2) + 1, hi, empty)

\* The concatenation of a list of strings
concat(parts) == concat_range(parts, 1, Len(parts), "")

\* The concatenation of a list of lists
flat(parts) == concat_range(parts, 1, Len(parts), <<>>)

\* s.lower()
lower(s) ==
    concat([k \in 1..Len(s) |->
              IF Ch(s, k) \in DOMAIN to_lower THEN to_lower[Ch(s, k)] ELSE Ch(s, k)])

\* s.title(): a letter that follows a letter is lowercased, any other letter
\* is uppercased.
title(s) ==
    concat([k \in 1..Len(s) |->
              IF k > 1 /\ Ch(s, k - 1) \in DOMAIN to_lower \cup DOMAIN to_upper
              THEN IF Ch(s, k) \in DOMAIN to_lower THEN to_lower[Ch(s, k)] ELSE Ch(s, k)
              ELSE IF Ch(s, k) \in DOMAIN to_upper THEN to_upper[Ch(s, k)] ELSE Ch(s, k)])

\* s.strip()
strip(s) ==
    LET first == CHOOSE i \in 1..(Len(s) + 1) :
                     /\ i = Len(s) + 1 \/ Ch(s, i) \notin Space
                     /\ \A k \in 1..(i - 1) : Ch(s, k) \in Space
        last == CHOOSE i \in 0..Len(s) :
                     /\ i = Len(s) \/ Ch(s, Len(s) - i) \notin Space
                     /\ \A k \in 1..i : Ch(s, Len(s) + 1 - k) \in Space
    IN IF first > Len(s) THEN "" ELSE SubSeq(s, first, Len(s) - last)

\* s.split(sep): the text between the occurrences of sep, left to right
RECURSIVE split_from(_, _, _)
split_from(s, sep, i) ==
    LET hits == {k \in i..(Len(s) - Len(sep) + 1) : SubSeq(s, k, k + Len(sep) - 1) = sep}
    IN IF hits = {} THEN <<SubSeq(s, i, Len(s))>>
       ELSE <<SubSeq(s, i, MinOf(hits) - 1)>> \o split_from(s, sep, MinOf(hits) + Len(sep))

split(s, sep) == split_from(s, sep, 1)

\* sep.join(parts)
join(sep, parts) ==
    concat([k \in 1..Len(parts) |-> IF k < Len(parts) THEN parts[k] \o sep ELSE parts[k]])

\* s.replace(old, new): the occurrences of old, left to right, not overlapping
RECURSIVE replace_from(_, _, _, _)
replace_from(s, old, new, i) ==
    LET hits == {k \in i..(Len(s) - Len(old) + 1) : SubSeq(s, k, k + Len(old) - 1) = old}
    IN IF hits = {} THEN SubSeq(s, i, Len(s))
       ELSE SubSeq(s, i, MinOf(hits) - 1) \o new
            \o replace_from(s, old, new, MinOf(hits) + Len(old))

replace(s, old, new) == replace_from(s, old, new, 1)

\* ------------------------------------------------------------------------
\* Python re: a backtracking matcher. A pattern is a tree; running it from a
\* result gives the results of all its matches in the order backtracking
\* tries them, so the first one is the match Python reports.
\* ------------------------------------------------------------------------

Lit(w) == [t |-> "lit", w |-> w]
Cls(chars) == [t |-> "cls", chars |-> Chars(chars), neg |-> FALSE]
Cat(a) == [t |-> "cat", a |-> a]
Alt(a) == [t |-> "alt", a |-> a]
Rep(p, lo, hi) == [t |-> "rep", p |-> p, lo |-> lo, hi |-> hi, greedy |-> TRUE]
Grp(p) == [t |-> "grp", p |-> p]
Bol == [t |-> "bol"]
Eol == [t |-> "eol"]
Wb == [t |-> "wb"]

\* hi of an unbounded repeat
Unbounded == -1

Opt(p) == Rep(p, 0, 1)
Plus(p) == Rep(p, 1, Unbounded)
Star(p) == Rep(p, 0, Unbounded)
Dot == [t |-> "cls", chars |-> {"\n"}, neg |-> TRUE]
Sp == Cls(SPACES)
Words(ws) == Alt([k \in 1..Len(ws) |-> Lit(ws[k])])

\* The number of consecutive characters of class p from position i on.
cls_run(p, s, i) ==
    CHOOSE j \in 0..(Len(s) - i + 1) :
        /\ j = Len(s) - i + 1 \/ (Ch(s, i + j) \in p.chars) = p.neg
        /\ \A k \in 0..(j - 1) : (Ch(s, i + k) \in p.chars) # p.neg

\* What the patterns \w and \b take for a word character is at position i
is_word_at(s, i) ==
    i >= 1 /\ i <= Len(s) /\ Ch(s, i) \in Chars(LOWER \o UPPER \o DIGITS \o "_")

\* The pattern has a group 1
RECURSIVE has_group(_)
has_group(p) ==
    CASE p.t = "grp" -> TRUE
      [] p.t = "rep" -> has_group(p.p)
      [] p.t \in {"cat", "alt"} -> \E k \in 1..Len(p.a) : has_group(p.a[k])
      [] OTHER -> FALSE

\* A result [e, gs, ge]: e is the position after the text matched so far,
\* gs..ge-1 the span of group 1 (gs = 0: group 1 took no part).
RECURSIVE re_run(_, _, _)
RECURSIVE re_cat(_, _, _, _)
RECURSIVE re_rep(_, _, _, _)

re_run(p, s, r) ==
    CASE p.t = "lit" ->
           IF r.e + Len(p.w) - 1 <= Len(s) /\ SubSeq(s, r.e, r.e + Len(p.w) - 1) = p.w
           THEN <<[r EXCEPT !.e = r.e + Len(p.w)]>> ELSE <<>>
      [] p.t = "cls" ->
           IF r.e <= Len(s) /\ (Ch(s, r.e) \in p.chars) # p.neg
           THEN <<[r EXCEPT !.e = r.e + 1]>> ELSE <<>>
      [] p.t = "cat" -> re_cat(p.a, 1, s, r)
      [] p.t = "alt" -> flat([k \in 1..Len(p.a) |-> re_run(p.a[k], s, r)])
      [] p.t = "rep" ->
           IF p.p.t = "cls"
           THEN LET run == cls_run(p.p, s, r.e)
                    most == IF p.hi = Unbounded \/ run <= p.hi THEN run ELSE p.hi
                    n == most - p.lo + 1
                IN IF n <= 0 THEN <<>>
                   ELSE [k \in 1..n |->
                           [r EXCEPT !.e = IF p.greedy THEN r.e + most - (k - 1)
                                                       ELSE r.e + p.lo + (k - 1)]]
           ELSE re_rep(p, s, r, 0)
      [] p.t = "grp" ->
           LET inner == re_run(p.p, s, r)
           IN [k \in 1..Len(inner) |-> [inner[k] EXCEPT !.gs = r.e, !.ge = inner[k].e]]
      [] p.t = "bol" -> IF r.e = 1 THEN <<r>> ELSE <<>>
      [] p.t = "eol" ->
           IF r.e = Len(s) + 1 \/ (r.e = Len(s) /\ Ch(s, r.e) = "\n") THEN <<r>> ELSE <<>>
      [] p.t = "wb" ->
           IF is_word_at(s, r.e - 1) # is_word_at(s, r.e) THEN <<r>> ELSE <<>>

re_cat(a, k, s, r) ==
    IF k > Len(a) THEN <<r>>
    ELSE LET rs == re_run(a[k], s, r)
         IN flat([j \in 1..Len(rs) |-> re_cat(a, k + 1, s, rs[j])])

\* n repetitions are behind r; a repetition that matches the empty text ends
\* the repeat.
re_rep(p, s, r, n) ==
    LET rs == IF p.hi = Unbounded \/ n < p.hi THEN re_run(p.p, s, r) ELSE <<>>
        more == flat([j \in 1..Len(rs) |->
                        IF rs[j].e > r.e THEN re_rep(p, s, rs[j], n + 1)
                        ELSE IF n + 1 >= p.lo THEN <<rs[j]>> ELSE <<>>])
        stop == IF n >= p.lo THEN <<r>> ELSE <<>>
    IN IF p.greedy THEN more \o stop ELSE stop \o more

\* The match object of re.match(p, s), of re.search(p, s) from position
\* `from` on: ok = FALSE is None; s..e-1 is the span of the whole match.
NoMatch == [ok |-> FALSE, s |-> 0, e |-> 0, gs |-> 0, ge |-> 0]

\* The match at position i whose results are rs: the first one
first_match(rs, i) ==
    IF rs = <<>> THEN NoMatch
    ELSE [ok |-> TRUE, s |-> i, e |-> rs[1].e, gs |-> rs[1].gs, ge |-> rs[1].ge]

re_at(p, s, i) == first_match(re_run(p, s, [e |-> i, gs |-> 0, ge |-> 0]), i)

re_match(p, s) == re_at(p, s, 1)

\* The leftmost match that starts at one of the positions lo..hi
RECURSIVE re_search_range(_, _, _, _)
re_search_range(p, s, lo, hi) ==
    IF lo > hi THEN NoMatch
    ELSE IF lo = hi THEN re_at(p, s, lo)
    ELSE LET mid == (lo + hi) \div 2
             left == re_search_range(p, s, lo, mid)
         IN IF left.ok THEN left ELSE re_search_range(p, s, mid + 1, hi)

re_search_from(p, s, from) == re_search_range(p, s, from, Len(s) + 1)

re_search(p, s) == re_search_from(p, s, 1)

\* match.group(1) of a match whose pattern has a group 1
group1(s, m) == SubSeq(s, m.gs, m.ge - 1)

\* re.sub(p, repl, s): every non-overlapping match, left to right, replaced
\* from position i on, m the next match
RECURSIVE re_sub_from(_, _, _, _)
RECURSIVE re_sub_next(_, _, _, _, _)
re_sub_next(p, repl, s, i, m) ==
    IF ~m.ok THEN SubSeq(s, i, Len(s))
    ELSE IF m.e > m.s
         THEN SubSeq(s, i, m.s - 1) \o repl \o re_sub_from(p, repl, s, m.e)
         ELSE IF m.s > Len(s) THEN SubSeq(s, i, Len(s)) \o repl
         ELSE SubSeq(s, i, m.s) \o repl \o re_sub_from(p, repl, s, m.s + 1)

re_sub_from(p, repl, s, i) == re_sub_next(p, repl, s, i, re_search_from(p, s, i))

re_sub(p, repl, s) == re_sub_from(p, repl, s, 1)

\* ------------------------------------------------------------------------
\* Results of a call: the value returned, or the exception raised
\* ------------------------------------------------------------------------

Return(v) == [exc |-> "", val |-> v]
Raise(e, msg) == [exc |-> e, val |-> msg]

\* ------------------------------------------------------------------------
\* business_requirements_server.py: deriving action and benefit
\* ------------------------------------------------------------------------

\* r'^(?:the\s+)?(?:system|application|user|users?)\s+(?:can|should|must|will|shall)\s+'
action_subject_prefix ==
    Cat(<<Bol, Opt(Cat(<<Lit("the"), Plus(Sp)>>)),
          Alt(<<Lit("system"), Lit("application"), Lit("user"),
                Cat(<<Lit("user"), Opt(Lit("s"))>>)>>),
          Plus(Sp), Words(<<"can", "should", "must", "will", "shall">>), Plus(Sp)>>)

\* r'^(?:provides?|enables?|allows?|supports?|implements?)\s+'
action_verb_prefix ==
    Cat(<<Bol,
          Alt(<<Cat(<<Lit("provide"), Opt(Lit("s"))>>), Cat(<<Lit("enable"), Opt(Lit("s"))>>),
                Cat(<<Lit("allow"), Opt(Lit("s"))>>), Cat(<<Lit("support"), Opt(Lit("s"))>>),
                Cat(<<Lit("implement"), Opt(Lit("s"))>>)>>),
          Plus(Sp)>>)

\* r'^(?:to\s+)?'
action_to_prefix == Cat(<<Bol, Opt(Cat(<<Lit("to"), Plus(Sp)>>))>>)

\* action[:-1] if action.endswith('.')
without_final_dot(action) ==
    IF action # "" /\ Ch(action, Len(action)) = "."
    THEN SubSeq(action, 1, Len(action) - 1) ELSE action

\* action if action else default
if_any(action, default) == IF action # "" THEN action ELSE default

extract_action_from_requirement(requirement) ==
    if_any(without_final_dot(strip(
               re_sub(action_to_prefix, "",
                      re_sub(action_verb_prefix, "",
                             re_sub(action_subject_prefix, "", lower(requirement)))))),
           lower(requirement))

\* r'so\s+that\s+(.+)', r'in\s+order\s+to\s+(.+)', r'to\s+ensure\s+(.+)',
\* r'enabling\s+(.+)', r'resulting\s+in\s+(.+)'
benefit_patterns ==
    << Cat(<<Lit("so"), Plus(Sp), Lit("that"), Plus(Sp), Grp(Plus(Dot))>>),
       Cat(<<Lit("in"), Plus(Sp), Lit("order"), Plus(Sp), Lit("to"), Plus(Sp), Grp(Plus(Dot))>>),
       Cat(<<Lit("to"), Plus(Sp), Lit("ensure"), Plus(Sp), Grp(Plus(Dot))>>),
       Cat(<<Lit("enabling"), Plus(Sp), Grp(Plus(Dot))>>),
       Cat(<<Lit("resulting"), Plus(Sp), Lit("in"), Plus(Sp), Grp(Plus(Dot))>>) >>

\* The dict benefit_mapping in its insertion order, which is the order
\* .items() yields.
benefit_mapping ==
    << <<"login", "I can securely access my account and data">>,
       <<"register", "I can create an account and use the system">>,
       <<"search", "I can quickly find the information I need">>,
       <<"view", "I can see relevant information">>,
       <<"edit", "I can keep information current and accurate">>,
       <<"delete", "I can remove unwanted or obsolete data">>,
       <<"create", "I can add new content to the system">>,
       <<"save", "my work is preserved and secure">>,
       <<"upload", "I can share files with the system">>,
       <<"download", "I can access files when needed">>,
       <<"manage", "I can control and organize my data">>,
       <<"configure", "I can customize the system to my needs">>,
       <<"monitor", "I can track important metrics and status">>,
       <<"approve", "I can control workflow and quality">>,
       <<"report", "I can generate insights and documentation">> >>

RECURSIVE benefit_by_keyword(_, _)
benefit_by_keyword(req_lower, k) ==
    IF k > Len(benefit_mapping)
    THEN "I can accomplish my business objectives efficiently"
    ELSE IF contains(req_lower, benefit_mapping[k][1]) THEN benefit_mapping[k][2]
    ELSE benefit_by_keyword(req_lower, k + 1)

\* A derivation that looks at the keyword table before the patterns
benefit_keywords_first(req_lower, k) ==
    LET hits == {p \in k..Len(benefit_patterns) : re_search(benefit_patterns[p], req_lower).ok}
    IN IF hits = {} \/ \E m \in 1..Len(benefit_mapping) : contains(req_lower, benefit_mapping[m][1])
       THEN benefit_by_keyword(req_lower, 1)
       ELSE strip(group1(req_lower, re_search(benefit_patterns[MinOf(hits)], req_lower)))

RECURSIVE benefit_by_pattern(_, _)
RECURSIVE benefit_by_match(_, _, _)
benefit_by_match(req_lower, k, match) ==
    IF match.ok THEN strip(group1(req_lower, match))
    ELSE benefit_by_pattern(req_lower, k + 1)

\* The pattern loop from pattern k on, then the keyword loop
benefit_by_pattern(req_lower, k) ==
    IF k > Len(benefit_patterns) THEN benefit_by_keyword(req_lower, 1)
    ELSE benefit_by_match(req_lower, k, re_search(benefit_patterns[k], req_lower))

extract_benefit_from_requirement(requirement) == benefit_by_pattern(lower(requirement), 1)

\* ------------------------------------------------------------------------
\* business_requirements_server.py: rendering a story
\* ------------------------------------------------------------------------

generate_standard_story(story_num, user_persona, action, benefit) ==
    "**User Story " \o ToString(story_num) \o ":**\n"
    \o "As a " \o user_persona \o ", I want to " \o action \o ", so that " \o benefit \o ".\n\n"
    \o "**Acceptance Criteria:**\n"
    \o BULLET \o " Given that I am a " \o user_persona \o "\n"
    \o BULLET \o " When I " \o action \o "\n"
    \o BULLET \o " Then " \o benefit \o "\n"
    \o BULLET \o " And the system provides appropriate feedback"

\* A detailed rendering that quotes the requirement in lowercase and trimmed
generate_detailed_story_quoting_lower(story_num, user_persona, action, benefit, original_requirement) ==
    "**User Story " \o ToString(story_num) \o ":**\n"
    \o "As a " \o user_persona \o ", I want to " \o action \o ", so that " \o benefit \o ".\n\n"
    \o "**Original Requirement:**\n" \o strip(lower(original_requirement)) \o "\n\n"
    \o "**Acceptance Criteria:**\n"
    \o BULLET \o " Given that I am a " \o user_persona \o " with appropriate permissions\n"
    \o BULLET \o " When I " \o action \o "\n"
    \o BULLET \o " Then " \o benefit

generate_detailed_story(story_num, user_persona, action, benefit, original_requirement) ==
    "**User Story " \o ToString(story_num) \o ":**\n"
    \o "As a " \o user_persona \o ", I want to " \o action \o ", so that " \o benefit \o ".\n\n"
    \o "**Original Requirement:**\n" \o original_requirement \o "\n\n"
    \o "**Acceptance Criteria:**\n"
    \o BULLET \o " Given that I am a " \o user_persona \o " with appropriate permissions\n"
    \o BULLET \o " When I " \o action \o "\n"
    \o BULLET \o " Then " \o benefit \o "\n"
    \o BULLET \o " And the system responds within acceptable time limits\n"
    \o BULLET \o " And appropriate logging and audit trails are maintained\n"
    \o BULLET \o " And error handling is graceful and informative\n\n"
    \o "**Definition of Done:**\n"
    \o BULLET \o " Feature is implemented and tested\n"
    \o BULLET \o " User acceptance testing is completed\n"
    \o BULLET \o " Documentation is updated"

generate_agile_story(story_num, user_persona, action, benefit) ==
    "**Story #" \o ToString(story_num) \o ":** " \o title(action) \o "\n\n"
    \o "**User Story:**\nAs a " \o user_persona \o ", I want to " \o action
    \o ", so that " \o benefit \o ".\n\n"
    \o "**Acceptance Criteria:**\n"
    \o "- [ ] Given a " \o user_persona \o "\n"
    \o "- [ ] When they " \o action \o "\n"
    \o "- [ ] Then " \o benefit \o "\n"
    \o "- [ ] And system provides feedback\n\n"
    \o "**Story Points:** TBD\n"
    \o "**Priority:** TBD"

generate_default_story(user_persona) ==
    "**User Story 1:**\nAs a " \o user_persona
    \o ", I want to use the system features, so that I can accomplish my goals efficiently.\n\n"
    \o "**Acceptance Criteria:**\n"
    \o BULLET \o " Given that I have access to the system\n"
    \o BULLET \o " When I use the available features\n"
    \o BULLET \o " Then I can complete my tasks\n"
    \o BULLET \o " And the system provides helpful feedback"

\* ------------------------------------------------------------------------
\* business_requirements_server.py: generate_user_stories
\* ------------------------------------------------------------------------

\* seq[:n], n of either sign
slice_to(seq, n) ==
    IF n >= 0 THEN SubSeq(seq, 1, IF n < Len(seq) THEN n ELSE Len(seq))
    ELSE SubSeq(seq, 1, IF Len(seq) + n > 0 THEN Len(seq) + n ELSE 0)

\* if story_format == "detailed": ... elif story_format == "agile": ... else: ...
story_in(story_format, story_num, user_persona, action, benefit, requirement) ==
    IF story_format = "detailed"
    THEN generate_detailed_story(story_num, user_persona, action, benefit, requirement)
    ELSE IF story_format = "agile"
    THEN generate_agile_story(story_num, user_persona, action, benefit)
    ELSE generate_standard_story(story_num, user_persona, action, benefit)

\* story_for with the persona cycle lost: every story gets the first persona
story_for_first_persona(i, requirement, user_personas, story_format) ==
    story_in(story_format, i + 1, user_personas[1],
             extract_action_from_requirement(requirement),
             extract_benefit_from_requirement(requirement), requirement)

\* story_for with the format compared without regard to case
story_for_any_case(i, requirement, user_personas, story_format) ==
    story_in(lower(story_format), i + 1, user_personas[(i % Len(user_personas)) + 1],
             extract_action_from_requirement(requirement),
             extract_benefit_from_requirement(requirement), requirement)

\* story_for with the ordinal counted from 0
story_for_numbered_from_zero(i, requirement, user_personas, story_format) ==
    story_in(story_format, i, user_personas[(i % Len(user_personas)) + 1],
             extract_action_from_requirement(requirement),
             extract_benefit_from_requirement(requirement), requirement)

\* One story of the loop body, i counted from 0: the persona, the action and
\* the benefit, and the rendering the format selects.
story_for(i, requirement, user_personas, story_format) ==
    story_in(story_format, i + 1, user_personas[(i % Len(user_personas)) + 1],
             extract_action_from_requirement(requirement),
             extract_benefit_from_requirement(requirement), requirement)

\* A loop without `if i >= max_stories: break`
RECURSIVE stories_loop_without_break(_, _, _, _, _, _)
stories_loop_without_break(sliced, user_personas, story_format, max_stories, i, stories) ==
    IF i >= Len(sliced) THEN Return(stories)
    ELSE IF Len(user_personas) = 0
         THEN Raise("ZeroDivisionError", "integer modulo by zero")
    ELSE stories_loop_without_break(
             sliced, user_personas, story_format, max_stories, i + 1,
             Append(stories, story_for(i, sliced[i + 1], user_personas, story_format)))

\* The loop from iteration i on, `stories` collected so far. i % len([])
\* raises ZeroDivisionError.
RECURSIVE stories_loop(_, _, _, _, _, _)
stories_loop(sliced, user_personas, story_format, max_stories, i, stories) ==
    IF i >= Len(sliced) THEN Return(stories)
    ELSE IF i >= max_stories THEN Return(stories)
    ELSE IF Len(user_personas) = 0
         THEN Raise("ZeroDivisionError", "integer modulo by zero")
    ELSE stories_loop(sliced, user_personas, story_format, max_stories, i + 1,
                      Append(stories, story_for(i, sliced[i + 1], user_personas, story_format)))

\* generate_user_stories with max_stories ignored
generate_user_stories_uncapped(requirements, user_personas, story_format, max_stories) ==
    IF requirements = <<>>
    THEN Return(<<generate_default_story(IF user_personas # <<>> THEN user_personas[1]
                                                                ELSE "user")>>)
    ELSE stories_loop(requirements, user_personas, story_format, Len(requirements), 0, <<>>)

\* generate_user_stories without the default story
generate_user_stories_no_default(requirements, user_personas, story_format, max_stories) ==
    stories_loop(slice_to(requirements, max_stories), user_personas, story_format,
                 max_stories, 0, <<>>)

generate_user_stories(requirements, user_personas, story_format, max_stories) ==
    IF requirements = <<>>
    THEN Return(<<generate_default_story(IF user_personas # <<>> THEN user_personas[1]
                                                                ELSE "user")>>)
    ELSE stories_loop(slice_to(requirements, max_stories), user_personas, story_format,
                      max_stories, 0, <<>>)

\* ------------------------------------------------------------------------
\* business_requirements_server.py: analyze_document_structure
\* ------------------------------------------------------------------------

\* re.findall(p, s) for a pattern with one group: group 1 of every
\* non-overlapping match, left to right
RECURSIVE re_findall_from(_, _, _)
RECURSIVE re_findall_next(_, _, _)
re_findall_next(p, s, m) ==
    IF ~m.ok THEN <<>>
    ELSE <<group1(s, m)>> \o re_findall_from(p, s, IF m.e > m.s THEN m.e ELSE m.s + 1)

re_findall_from(p, s, i) == re_findall_next(p, s, re_search_from(p, s, i))

re_findall(p, s) == re_findall_from(p, s, 1)

\* r'^#{1,6}\s+(.+)$', r'^\d+\.\s+(.+)$', r'^[A-Z][A-Z\s]+:?\s*$',
\* r'^(.+)\n=+$', r'^(.+)\n-+$'
header_patterns ==
    << Cat(<<Bol, Rep(Lit("#"), 1, 6), Plus(Sp), Grp(Plus(Dot)), Eol>>),
       Cat(<<Bol, Plus(Cls(DIGITS)), Lit("."), Plus(Sp), Grp(Plus(Dot)), Eol>>),
       Cat(<<Bol, Cls(UPPER), Plus(Cls(UPPER \o SPACES)), Opt(Lit(":")), Star(Sp), Eol>>),
       Cat(<<Bol, Grp(Plus(Dot)), Lit("\n"), Plus(Lit("=")), Eol>>),
       Cat(<<Bol, Grp(Plus(Dot)), Lit("\n"), Plus(Lit("-")), Eol>>) >>

\* A pattern loop that appends the header text whatever its length
RECURSIVE header_of_line_any_length(_, _)
header_of_line_any_length(line, k) ==
    IF k > Len(header_patterns) THEN Return(<<>>)
    ELSE LET match == re_match(header_patterns[k], line)
         IN IF ~match.ok THEN header_of_line_any_length(line, k + 1)
            ELSE IF ~has_group(header_patterns[k]) THEN Raise("IndexError", "no such group")
            ELSE Return(<<strip(group1(line, match))>>)

\* The pattern loop of one stripped, non-empty line from pattern k on: the
\* header it appends (none: <<>>), or the IndexError of match.group(1) on a
\* pattern that has no group 1.
RECURSIVE header_of_line(_, _)
header_of_line(line, k) ==
    IF k > Len(header_patterns) THEN Return(<<>>)
    ELSE LET match == re_match(header_patterns[k], line)
         IN IF ~match.ok THEN header_of_line(line, k + 1)
            ELSE IF ~has_group(header_patterns[k]) THEN Raise("IndexError", "no such group")
            ELSE LET header_text == strip(group1(line, match))
                 IN IF Len(header_text) > 3 /\ Len(header_text) < 100
                    THEN Return(<<header_text>>)
                    ELSE Return(<<>>)

\* The header loop over the lines: the headers in line order, or the
\* exception of the first line that raises.
find_headers(lines) ==
    LET each == [i \in 1..Len(lines) |->
                   IF strip(lines[i]) = "" THEN Return(<<>>)
                   ELSE header_of_line(strip(lines[i]), 1)]
        bad == {i \in 1..Len(lines) : each[i].exc # ""}
    IN IF bad # {} THEN each[MinOf(bad)]
       ELSE Return(flat([i \in 1..Len(lines) |-> each[i].val]))

requirement_keywords ==
    { "shall", "should", "must", "will", "needs to", "required to",
      "user can", "system shall", "application must", "feature should",
      "requirement:", "req:", "user story:", "as a", "i want", "so that" }

\* The requirement loop over the lines
find_requirements(lines) ==
    flat([i \in 1..Len(lines) |->
            LET line == strip(lines[i])
            IN IF /\ Len(line) > 20
                  /\ \E keyword \in requirement_keywords : contains(lower(line), keyword)
               THEN <<line>> ELSE <<>>])

\* r'\bas an?\s+([a-z]+(?:\s+[a-z]+)?)\b',
\* r'\b([a-z]+(?:\s+[a-z]+)?)\s+(?:can|should|must|will)\b',
\* r'\buser\s+type:?\s*([a-z]+(?:\s+[a-z]+)?)\b',
\* r'\brole:?\s*([a-z]+(?:\s+[a-z]+)?)\b'
user_role_patterns ==
    LET \* [a-z]+(?:\s+[a-z]+)?
        role_words == Cat(<<Plus(Cls(LOWER)), Opt(Cat(<<Plus(Sp), Plus(Cls(LOWER))>>))>>)
    IN
    << Cat(<<Wb, Lit("as a"), Opt(Lit("n")), Plus(Sp), Grp(role_words), Wb>>),
       Cat(<<Wb, Grp(role_words), Plus(Sp), Words(<<"can", "should", "must", "will">>), Wb>>),
       Cat(<<Wb, Lit("user"), Plus(Sp), Lit("type"), Opt(Lit(":")), Star(Sp),
             Grp(role_words), Wb>>),
       Cat(<<Wb, Lit("role"), Opt(Lit(":")), Star(Sp), Grp(role_words), Wb>>) >>

\* A loop that appends the stripped match whatever it is
add_roles_unfiltered(matches) == [j \in 1..Len(matches) |-> strip(matches[j])]

\* The roles the loop appends for the matches of all the patterns, in the
\* order it meets them: a role is appended unless it is empty, long, one of
\* three words, or in user_roles already, that is, met before.
add_roles(matches) ==
    flat([j \in 1..Len(matches) |->
            LET role == strip(matches[j])
            IN IF /\ role # "" /\ Len(role) < 20
                  /\ role \notin {"user", "system", "application"}
                  /\ \A i \in 1..(j - 1) : strip(matches[i]) # role
               THEN <<role>> ELSE <<>>])

find_roles(content_lower) ==
    add_roles(flat([k \in 1..Len(user_role_patterns) |->
                      re_findall(user_role_patterns[k], content_lower)]))

\* An estimate that is the number of requirement lines itself
estimated_stories_unclamped(n) == n

estimated_stories_of(n) == LET m == IF n > 3 THEN n ELSE 3 IN IF m < 15 THEN m ELSE 15

\* A rating whose boundaries are one off: 20 lines are "High", 5 are "Low"
complexity_level_inclusive(n) == IF n >= 20 THEN "High" ELSE IF n <= 5 THEN "Low" ELSE "Medium"

complexity_level_of(n) == IF n > 20 THEN "High" ELSE IF n < 5 THEN "Low" ELSE "Medium"

analyze_document_structure(content) ==
    LET lines == split(content, "\n")
        headers == find_headers(lines)
        requirements == find_requirements(lines)
        content_lower == lower(content)
        found == find_roles(content_lower)
        common_roles == <<"admin", "manager", "customer", "operator", "viewer">>
        \* [role for role in common_roles if role in content_lower], if none found
        user_roles == IF found # <<>> THEN found
                      ELSE flat([k \in 1..Len(common_roles) |->
                                   IF contains(content_lower, common_roles[k])
                                   THEN <<common_roles[k]>> ELSE <<>>])
    IN IF headers.exc # "" THEN headers
       ELSE Return([total_lines |-> Len(lines),
                    \* len(content.split()): the maximal runs of non-space characters
                    total_words |->
                        Cardinality({k \in 1..Len(content) :
                                        /\ Ch(content, k) \notin Space
                                        /\ (k = 1 \/ Ch(content, k - 1) \in Space)}),
                    total_chars |-> Len(content),
                    headers |-> headers.val,
                    requirements |-> requirements,
                    features |-> <<>>,
                    user_roles |-> user_roles,
                    estimated_stories |-> estimated_stories_of(Len(requirements)),
                    complexity_level |-> complexity_level_of(Len(requirements))])

\* ------------------------------------------------------------------------
\* business_requirements_server.py: extract_requirements_from_document
\* ------------------------------------------------------------------------

\* r'(?:shall|should|must|will|needs?\s+to|required\s+to)\s+(.+)',
\* r'(?:user|system|application)\s+(?:can|shall|should|must|will)\s+(.+)',
\* r'(?:the\s+)?(?:system|application|software)\s+(?:provides?|enables?|allows?|supports?)\s+(.+)',
\* r'(?:users?\s+)?(?:can|should|must|will|able\s+to)\s+(.+)',
\* r'(?:feature|functionality|capability):\s*(.+)',
\* r'(?:requirement|req):\s*(.+)',
\* r'as\s+an?\s+\w+,?\s+i\s+want\s+(?:to\s+)?(.+?)(?:\s+so\s+that|$)'
requirement_patterns ==
    << Cat(<<Alt(<<Lit("shall"), Lit("should"), Lit("must"), Lit("will"),
                   Cat(<<Lit("need"), Opt(Lit("s")), Plus(Sp), Lit("to")>>),
                   Cat(<<Lit("required"), Plus(Sp), Lit("to")>>)>>),
             Plus(Sp), Grp(Plus(Dot))>>),
       Cat(<<Words(<<"user", "system", "application">>), Plus(Sp),
             Words(<<"can", "shall", "should", "must", "will">>), Plus(Sp), Grp(Plus(Dot))>>),
       Cat(<<Opt(Cat(<<Lit("the"), Plus(Sp)>>)), Words(<<"system", "application", "software">>),
             Plus(Sp),
             Alt(<<Cat(<<Lit("provide"), Opt(Lit("s"))>>), Cat(<<Lit("enable"), Opt(Lit("s"))>>),
                   Cat(<<Lit("allow"), Opt(Lit("s"))>>), Cat(<<Lit("support"), Opt(Lit("s"))>>)>>),
             Plus(Sp), Grp(Plus(Dot))>>),
       Cat(<<Opt(Cat(<<Lit("user"), Opt(Lit("s")), Plus(Sp)>>)),
             Alt(<<Lit("can"), Lit("should"), Lit("must"), Lit("will"),
                   Cat(<<Lit("able"), Plus(Sp), Lit("to")>>)>>),
             Plus(Sp), Grp(Plus(Dot))>>),
       Cat(<<Words(<<"feature", "functionality", "capability">>), Lit(":"), Star(Sp),
             Grp(Plus(Dot))>>),
       Cat(<<Words(<<"requirement", "req">>), Lit(":"), Star(Sp), Grp(Plus(Dot))>>),
       Cat(<<Lit("as"), Plus(Sp), Lit("a"), Opt(Lit("n")), Plus(Sp),
             Plus(Cls(LOWER \o UPPER \o DIGITS \o "_")), Opt(Lit(",")),
             Plus(Sp), Lit("i"), Plus(Sp), Lit("want"), Plus(Sp),
             Opt(Cat(<<Lit("to"), Plus(Sp)>>)), Grp([Plus(Dot) EXCEPT !.greedy = FALSE]),
             Alt(<<Cat(<<Plus(Sp), Lit("so"), Plus(Sp), Lit("that")>>), Eol>>)>>) >>

\* A pattern loop that goes on to the next pattern when the capture of a
\* matching pattern is too short
RECURSIVE phrase_by_any_pattern(_, _)
phrase_by_any_pattern(line_lower, k) ==
    IF k > Len(requirement_patterns) THEN <<>>
    ELSE LET match == re_search(requirement_patterns[k], line_lower)
         IN IF match.ok /\ Len(strip(group1(line_lower, match))) > 10
            THEN <<re_sub(Plus(Sp), " ", strip(group1(line_lower, match)))>>
            ELSE phrase_by_any_pattern(line_lower, k + 1)

\* The phrases the requirement patterns give for one line, from pattern k
\* on: the first pattern that matches decides.
RECURSIVE phrase_by_pattern(_, _)
phrase_by_pattern(line_lower, k) ==
    IF k > Len(requirement_patterns) THEN <<>>
    ELSE LET match == re_search(requirement_patterns[k], line_lower)
         IN IF ~match.ok THEN phrase_by_pattern(line_lower, k + 1)
            ELSE LET requirement == strip(group1(line_lower, match))
                 IN IF Len(requirement) > 10
                    THEN <<re_sub(Plus(Sp), " ", requirement)>>
                    ELSE <<>>

\* The phrase the list-item check gives for one line:
\* re.match(r'^[\*\-\+•]\s+', line) or re.match(r'^\d+\.?\s+', line), and
\* cleaned_line = re.sub(r'^[\*\-\+•\d\.]\s*', '', line)
phrase_by_list_item(line) ==
    IF \/ re_match(Cat(<<Bol, Cls("*-+" \o BULLET), Plus(Sp)>>), line).ok
       \/ re_match(Cat(<<Bol, Plus(Cls(DIGITS)), Opt(Lit(".")), Plus(Sp)>>), line).ok
    THEN LET cleaned_line ==
                 re_sub(Cat(<<Bol, Cls("*-+" \o BULLET \o DIGITS \o "."), Star(Sp)>>), "", line)
         IN IF /\ Len(cleaned_line) > 15
               /\ \E word \in {"user", "system", "shall", "should", "must", "can", "will"} :
                     contains(lower(cleaned_line), word)
            THEN <<cleaned_line>>
            ELSE <<>>
    ELSE <<>>

\* A loop body that does not look at feature_focus
phrases_of_line_unfocused(raw, feature_focus) ==
    IF Len(strip(raw)) < 10 \/ startswith(strip(raw), "#") THEN <<>>
    ELSE phrase_by_pattern(lower(strip(raw)), 1) \o phrase_by_list_item(strip(raw))

\* A loop body that appends the list-item phrase before the pattern phrase
phrases_of_line_item_first(raw, feature_focus) ==
    IF Len(strip(raw)) < 10 \/ startswith(strip(raw), "#") THEN <<>>
    ELSE IF feature_focus # "" /\ ~contains(lower(strip(raw)), lower(feature_focus)) THEN <<>>
    ELSE phrase_by_list_item(strip(raw)) \o phrase_by_pattern(lower(strip(raw)), 1)

\* The body of the loop for one line of the document.
phrases_of_line(raw, feature_focus) ==
    LET line == strip(raw)
        line_lower == lower(line)
    IN IF Len(line) < 10 \/ startswith(line, "#") THEN <<>>
       ELSE IF feature_focus # "" /\ ~contains(line_lower, lower(feature_focus)) THEN <<>>
       ELSE phrase_by_pattern(line_lower, 1) \o phrase_by_list_item(line)

all_phrases(lines, feature_focus) ==
    flat([i \in 1..Len(lines) |-> phrases_of_line(lines[i], feature_focus)])

MaxRequirements == 20

\* extract_requirements_from_document without the final truncation
extract_requirements_uncapped(content, feature_focus) ==
    all_phrases(split(content, "\n"), feature_focus)

extract_requirements_from_document(content, feature_focus) ==
    slice_to(all_phrases(split(content, "\n"), feature_focus), MaxRequirements)

\* ------------------------------------------------------------------------
\* server.py: stories from the text of a Google Doc
\* ------------------------------------------------------------------------

gdoc_extract_action_from_requirement(requirement) ==
    LET req_lower == lower(requirement)
    IN IF contains(req_lower, "able to") THEN strip(split(req_lower, "able to")[2])
       ELSE IF contains(req_lower, "shall") THEN strip(split(req_lower, "shall")[2])
       ELSE IF contains(req_lower, "should") THEN strip(split(req_lower, "should")[2])
       ELSE req_lower

gdoc_extract_benefit_from_requirement(requirement) ==
    LET req_lower == lower(requirement)
        any(words) == \E w \in words : contains(req_lower, w)
    IN IF contains(req_lower, "so that") THEN strip(split(req_lower, "so that")[2])
       ELSE IF contains(req_lower, "in order to") THEN strip(split(req_lower, "in order to")[2])
       ELSE IF any({"login", "authenticate", "sign in"}) THEN "I can securely access the system"
       ELSE IF any({"search", "find", "locate"}) THEN "I can quickly find what I need"
       ELSE IF any({"save", "store", "persist"}) THEN "my data is preserved for future use"
       ELSE IF any({"delete", "remove"}) THEN "I can manage my data effectively"
       ELSE "I can accomplish my goals efficiently"

generate_default_stories ==
    << "**User Story 1:**\nAs a user, I want to access the system, so that I can use its features.\n\n"
       \o "**Acceptance Criteria:**\n"
       \o BULLET \o " Given that I have valid credentials\n"
       \o BULLET \o " When I attempt to log in\n"
       \o BULLET \o " Then I should be granted access\n"
       \o BULLET \o " And I should see the main interface",
       "**User Story 2:**\nAs a user, I want to navigate through the application, "
       \o "so that I can find the features I need.\n\n"
       \o "**Acceptance Criteria:**\n"
       \o BULLET \o " Given that I am logged in\n"
       \o BULLET \o " When I use the navigation menu\n"
       \o BULLET \o " Then I should be able to access different sections\n"
       \o BULLET \o " And the interface should be intuitive and responsive" >>

MaxGdocStories == 5

gdoc_story(story_num, req) ==
    LET action == gdoc_extract_action_from_requirement(req)
        benefit == gdoc_extract_benefit_from_requirement(req)
    IN "**User Story " \o ToString(story_num) \o ":**\n"
       \o "As a user, I want to " \o action \o ", so that " \o benefit \o ".\n\n"
       \o "**Acceptance Criteria:**\n"
       \o BULLET \o " Given that I am a user with appropriate access\n"
       \o BULLET \o " When I " \o action \o "\n"
       \o BULLET \o " Then I should successfully complete the task\n"
       \o BULLET \o " And the system should provide appropriate feedback\n"
       \o BULLET \o " And the action should be logged/tracked as needed"

\* The requirement lines of the text, cleaned, before the focus filter
gdoc_requirements(content) ==
    LET lines == split(content, "\n")
        gdoc_requirement_keywords ==
            { "user", "customer", "shall", "should", "must", "requirement",
              "need", "want", "allow", "enable", "provide", "feature",
              "functionality", "capability", "able to", "should be able",
              "system must", "application should", "interface will" }
    IN flat([i \in 1..Len(lines) |->
               LET line == strip(lines[i])
               IN IF /\ Len(line) > 20 /\ ~startswith(line, "#")
                     /\ \E keyword \in gdoc_requirement_keywords : contains(lower(line), keyword)
                  THEN <<replace(replace(line, "The system", "the system"), "User", "user")>>
                  ELSE <<>>])

\* A generation that returns the stories it made, none included
generate_stories_from_content_without_default(content, feature_focus) ==
    LET found == gdoc_requirements(content)
        requirements == IF feature_focus # ""
                        THEN SelectSeq(found, LAMBDA req :
                                 contains(lower(req), lower(feature_focus)))
                        ELSE found
    IN [i \in 1..Len(slice_to(requirements, MaxGdocStories)) |-> gdoc_story(i, requirements[i])]

generate_stories_from_content(content, feature_focus) ==
    LET found == gdoc_requirements(content)
        requirements ==
            IF feature_focus # ""
            THEN flat([i \in 1..Len(found) |->
                         IF contains(lower(found[i]), lower(feature_focus))
                         THEN <<found[i]>> ELSE <<>>])
            ELSE found
        first == slice_to(requirements, MaxGdocStories)
        stories == [i \in 1..Len(first) |-> gdoc_story(i, first[i])]
    IN IF stories # <<>> THEN stories ELSE generate_default_stories

\* ------------------------------------------------------------------------
\* Tool calls: arguments, results
\* ------------------------------------------------------------------------

\* A value that may be None: <<>> is None, <<v>> is v.
None == <<>>

\* args.get(key), args.get(key, default) of an argument dictionary, which
\* is a function from the keys given to their values
get(args, key) == IF key \in DOMAIN args THEN <<args[key]>> ELSE None
get_or(args, key, default) == IF key \in DOMAIN args THEN args[key] ELSE default

\* bool(v) of a string that may be None
truthy(opt) == opt # None /\ opt[1] # ""

\* f"{v}" of a string that may be None
format(opt) == IF opt = None THEN "None" ELSE opt[1]

TextContent(text) == [type |-> "text", text |-> text]

\* What a call of a tool method ends with: a CallToolResult, or an
\* exception that leaves the method.
CallToolResult(content, isError) ==
    [escaped |-> "", content |-> content, isError |-> isError]

\* try: <body> except Exception as e: return CallToolResult(... f"{prefix}{str(e)}" ..., isError=True)
\* around a body whose outcome is Return(a CallToolResult) or Raise(e, msg)
try_except_escaping(outcome, prefix) ==
    IF outcome.exc = "" THEN outcome.val
    ELSE [escaped |-> outcome.exc, content |-> <<TextContent(outcome.val)>>, isError |-> FALSE]

try_except(outcome, prefix) ==
    IF outcome.exc = "" THEN outcome.val
    ELSE CallToolResult(<<TextContent(prefix \o outcome.val)>>, TRUE)

\* ------------------------------------------------------------------------
\* business_requirements_server.py: GitHub access
\* ------------------------------------------------------------------------

\* s.strip('/')
strip_slashes(s) ==
    LET first == CHOOSE i \in 1..(Len(s) + 1) :
                     /\ i = Len(s) + 1 \/ Ch(s, i) # "/"
                     /\ \A k \in 1..(i - 1) : Ch(s, k) = "/"
        last == CHOOSE i \in 0..Len(s) :
                     /\ i = Len(s) \/ Ch(s, Len(s) - i) # "/"
                     /\ \A k \in 1..i : Ch(s, Len(s) + 1 - k) = "/"
    IN IF first > Len(s) THEN "" ELSE SubSeq(s, first, Len(s) - last)

\* The text of s before the first character of `stops`, and the position of
\* that character (Len(s) + 1: none)
first_of(s, from, stops) ==
    CHOOSE i \in from..(Len(s) + 1) :
        /\ i = Len(s) + 1 \/ Ch(s, i) \in stops
        /\ \A k \in from..(i - 1) : Ch(s, k) \notin stops

\* urlparse(url).path: the url without its scheme, its //netloc, its
\* ?query and its #fragment
urlparse_path(url) ==
    LET colon == first_of(url, 1, {":"})
        has_scheme == /\ colon <= Len(url) /\ colon > 1
                      /\ Ch(url, 1) \in Chars(LOWER \o UPPER)
                      /\ \A k \in 1..(colon - 1) :
                            Ch(url, k) \in Chars(LOWER \o UPPER \o DIGITS \o "+-.")
        rest == IF has_scheme THEN SubSeq(url, colon + 1, Len(url)) ELSE url
        after == IF startswith(rest, "//")
                 THEN SubSeq(rest, first_of(rest, 3, {"/", "?", "#"}), Len(rest))
                 ELSE rest
    IN SubSeq(after, 1, first_of(after, 1, {"?", "#"}) - 1)

\* parse_github_url(repo_url), repo_url a string or None: <<owner, repo>>
parse_github_url(repo_url) ==
    IF repo_url = None
    THEN Raise("AttributeError", "'NoneType' object has no attribute 'startswith'")
    ELSE LET url == repo_url[1]
             parts == IF startswith(url, "git@github.com:")
                      THEN split(replace(replace(url, "git@github.com:", ""), ".git", ""), "/")
                      ELSE split(strip_slashes(urlparse_path(url)), "/")
         IN IF Len(parts) >= 2 THEN Return(<<parts[1], parts[2]>>)
            ELSE Raise("ValueError", "Invalid GitHub URL format: " \o url)

\* A response to the request of fetch_github_api is [exc, msg, status,
\* json]: the exception of the transport (exc # ""), or a status and, for
\* 200, the json of the body.
\* What fetch_github_api makes of it: the json of a 200, a ValueError for
\* another status, the exception of the transport.
github_outcome(response) ==
    IF response.exc # "" THEN Raise(response.exc, response.msg)
    ELSE IF response.status = 200 THEN Return(response.json)
    ELSE IF response.status = 404 THEN Raise("ValueError", "Repository or file not found")
    ELSE IF response.status = 403
    THEN Raise("ValueError", "Access denied. Check GitHub token or repository permissions")
    ELSE Raise("ValueError", "GitHub API error: " \o ToString(response.status))

fetch_github_api_retrying(response, attempt) ==
    IF (response.exc # "" \/ response.status # 200) /\ attempt < 2
    THEN [again |-> TRUE, out |-> Return(<<>>)]
    ELSE [again |-> FALSE, out |-> github_outcome(response)]

\* fetch_github_api after its request, the attempt-th of the call, is
\* answered: `again` says whether it sends the request once more, `out` is
\* what it returns or raises otherwise.
fetch_github_api(response, attempt) ==
    [again |-> FALSE, out |-> github_outcome(response)]

\* bytes are a sequence of chunks [ok, text]: text that is valid UTF-8
\* (ok) or a byte that is not. bytes.decode('utf-8') raises on such a byte,
\* bytes.decode('utf-8', errors='ignore') drops it.
utf8_decode(bytes, errors) ==
    IF errors = "strict" /\ \E k \in 1..Len(bytes) : ~bytes[k].ok
    THEN Raise("UnicodeDecodeError", "'utf-8' codec can't decode byte")
    ELSE Return(concat([k \in 1..Len(bytes) |-> IF bytes[k].ok THEN bytes[k].text ELSE ""]))

\* try: return <bytes>.decode('utf-8') except UnicodeDecodeError: return
\* <bytes>.decode('utf-8', errors='ignore'), where b64decode gave `decoded`
decode_text(decoded) ==
    IF decoded.exc # "" THEN decoded
    ELSE IF utf8_decode(decoded.val, "strict").exc = "UnicodeDecodeError"
    THEN utf8_decode(decoded.val, "ignore")
    ELSE utf8_decode(decoded.val, "strict")

\* get_file_content after fetch_github_api returned json: a file [kind,
\* encoding, valid, bytes, raw] or a directory listing (a list, which has
\* no .get)
get_file_content(json) ==
    IF json.kind = "list"
    THEN Raise("AttributeError", "'list' object has no attribute 'get'")
    ELSE IF json.encoding = "base64"
    \* base64.b64decode(content): content is the base64 text of `bytes`, or
    \* (~valid) no base64 text at all
    THEN decode_text(IF json.valid THEN Return(json.bytes)
                     ELSE Raise("Error", "Incorrect padding"))
    ELSE Return(json.raw)

\* ------------------------------------------------------------------------
\* business_requirements_server.py: tool methods
\* ------------------------------------------------------------------------

\* s * n
times(s, n) == concat([k \in 1..n |-> s])

\* In the result texts a pictograph of the source is written as its name in
\* brackets, "[bar chart]".

\* args.get("user_personas", ["user", "admin", "manager"])
default_personas == <<"user", "admin", "manager">>

\* A tool method up to its request: [fetch, url, out]. Either it asks for
\* url (fetch) or it ends with out before asking.
Ends(out) == [fetch |-> FALSE, url |-> "", out |-> out]
Fetches(url) == [fetch |-> TRUE, url |-> url, out |-> Return(<<>>)]

\* owner, repo = parse_github_url(repo_url); get_file_content(owner, repo,
\* file_path, branch) up to the request
located(parsed, file_path, branch) ==
    IF parsed.exc # "" THEN Ends(parsed)
    ELSE Fetches("https://api.github.com/repos/" \o parsed.val[1] \o "/" \o parsed.val[2]
                 \o "/contents/" \o format(file_path) \o "?ref=" \o branch)

locate(args) ==
    located(parse_github_url(get(args, "repo_url")), get(args, "file_path"),
            get_or(args, "branch", "main"))

read_business_requirements_request(args) ==
    IF ~truthy(get(args, "repo_url")) \/ ~truthy(get(args, "file_path"))
    THEN Ends(Return(CallToolResult(
             <<TextContent("Error: repo_url and file_path are required")>>, TRUE)))
    ELSE locate(args)

\* The tool methods from the return of fetch_github_api on give Return(a
\* CallToolResult) or the exception raised inside the try.
\* A tool method after get_file_content: the exception it raised, or the
\* result with the text made of the file content
result_of(got, text) ==
    IF got.exc # "" THEN got ELSE Return(CallToolResult(<<TextContent(text)>>, FALSE))

document_text(where, file_path, branch, content) ==
    "Business Requirements Document\n"
    \o "Repository: " \o where[1] \o "/" \o where[2] \o "\n"
    \o "File: " \o format(file_path) \o "\n"
    \o "Branch: " \o branch \o "\n"
    \o "Content Length: " \o ToString(Len(content)) \o " characters\n\n"
    \o times("=", 50) \o "\n"
    \o "DOCUMENT CONTENT:\n"
    \o times("=", 50) \o "\n\n"
    \o content

read_business_requirements_text(args, got) ==
    result_of(got, document_text(parse_github_url(get(args, "repo_url")).val,
                                 get(args, "file_path"), get_or(args, "branch", "main"),
                                 got.val))

read_business_requirements_rest(args, json) ==
    read_business_requirements_text(args, get_file_content(json))

analysis_text(where, file_path, a) ==
    "Requirements Document Analysis\n"
    \o "Repository: " \o where[1] \o "/" \o where[2] \o "/" \o format(file_path) \o "\n\n"
    \o "[bar chart] DOCUMENT STATISTICS:\n"
    \o BULLET \o " Total lines: " \o ToString(a.total_lines) \o "\n"
    \o BULLET \o " Total words: " \o ToString(a.total_words) \o "\n"
    \o BULLET \o " Total characters: " \o ToString(a.total_chars) \o "\n\n"
    \o "[magnifier] STRUCTURE ANALYSIS:\n"
    \o BULLET \o " Headers found: " \o ToString(Len(a.headers)) \o "\n"
    \o BULLET \o " Requirements identified: " \o ToString(Len(a.requirements)) \o "\n"
    \o BULLET \o " Features mentioned: " \o ToString(Len(a.features)) \o "\n"
    \o BULLET \o " User roles found: " \o ToString(Len(a.user_roles)) \o "\n\n"
    \o (IF a.headers = <<>> THEN ""
        ELSE "[clipboard] DOCUMENT SECTIONS:\n"
             \o concat([k \in 1..Len(slice_to(a.headers, 10)) |->
                    ToString(k) \o ". " \o a.headers[k] \o "\n"])
             \o (IF Len(a.headers) > 10
                 THEN "... and " \o ToString(Len(a.headers) - 10) \o " more sections\n"
                 ELSE "")
             \o "\n")
    \o (IF a.requirements = <<>> THEN ""
        ELSE "[check mark] SAMPLE REQUIREMENTS FOUND:\n"
             \o concat([k \in 1..Len(slice_to(a.requirements, 5)) |->
                    ToString(k) \o ". " \o slice_to(a.requirements[k], 100)
                    \o (IF Len(a.requirements[k]) > 100 THEN "..." ELSE "") \o "\n"])
             \o (IF Len(a.requirements) > 5
                 THEN "... and " \o ToString(Len(a.requirements) - 5) \o " more requirements\n"
                 ELSE "")
             \o "\n")
    \o (IF a.user_roles = <<>> THEN ""
        ELSE "[busts] USER ROLES IDENTIFIED:\n"
             \o concat([k \in 1..Len(a.user_roles) |-> BULLET \o " " \o a.user_roles[k] \o "\n"])
             \o "\n")
    \o "[target] RECOMMENDED USER STORY APPROACH:\n"
    \o BULLET \o " Suggested user personas: "
    \o join(", ", IF a.user_roles = <<>> THEN default_personas ELSE a.user_roles) \o "\n"
    \o BULLET \o " Estimated user stories: " \o ToString(a.estimated_stories) \o "\n"
    \o BULLET \o " Complexity level: " \o a.complexity_level \o "\n"

analyze_requirements_structure_text(args, analysed) ==
    result_of(analysed, analysis_text(parse_github_url(get(args, "repo_url")).val,
                                      get(args, "file_path"), analysed.val))

\* f(x) of the x an operation returned, or the exception it raised
analyzed(got) == IF got.exc # "" THEN got ELSE analyze_document_structure(got.val)

analyze_requirements_structure_rest(args, json) ==
    analyze_requirements_structure_text(args, analyzed(get_file_content(json)))

stories_text(where, file_path, user_personas, feature_focus, story_format, user_stories) ==
    "USER STORIES GENERATED FROM BUSINESS REQUIREMENTS\n"
    \o "Repository: " \o where[1] \o "/" \o where[2] \o "/" \o format(file_path) \o "\n"
    \o "Generated: " \o ToString(Len(user_stories)) \o " user stories\n"
    \o "User Personas: " \o join(", ", user_personas) \o "\n"
    \o (IF feature_focus # "" THEN "Feature Focus: " \o feature_focus \o "\n" ELSE "")
    \o "Story Format: " \o story_format \o "\n\n"
    \o times("=", 60) \o "\n\n"
    \o join("\n\n", user_stories)

generate_user_stories_from_requirements_text(args, user_stories) ==
    result_of(user_stories,
              stories_text(parse_github_url(get(args, "repo_url")).val, get(args, "file_path"),
                           get_or(args, "user_personas", default_personas),
                           get_or(args, "feature_focus", ""),
                           get_or(args, "story_format", "standard"), user_stories.val))

\* extract_requirements_from_document, then generate_user_stories, of the
\* file content get_file_content returned
stories_of(args, got) ==
    IF got.exc # "" THEN got
    ELSE generate_user_stories(
             extract_requirements_from_document(got.val, get_or(args, "feature_focus", "")),
             get_or(args, "user_personas", default_personas),
             get_or(args, "story_format", "standard"), get_or(args, "max_stories", 10))

generate_user_stories_from_requirements_rest(args, json) ==
    generate_user_stories_from_requirements_text(args, stories_of(args, get_file_content(json)))

\* ------------------------------------------------------------------------
\* server.py: tool methods
\* ------------------------------------------------------------------------

\* authenticate_google in an environment [token, credentials_json,
\* remote_ok]: token.json is "missing", "valid" or "expired" (with a
\* refresh token), credentials.json exists or not, and the remote step (the
\* refresh, or the OAuth flow) succeeds or not. Returns once docs_service
\* is built.
authenticate_google(env) ==
    IF env.token = "valid" THEN Return(TRUE)
    ELSE IF env.token = "expired"
    THEN IF env.remote_ok THEN Return(TRUE)
         ELSE Raise("RefreshError", "invalid_grant: Token has been expired or revoked.")
    ELSE IF ~env.credentials_json
    THEN Raise("FileNotFoundError",
               "credentials.json not found. Please download it from Google Cloud Console.")
    ELSE IF env.remote_ok THEN Return(TRUE)
    ELSE Raise("AccessDeniedError", "(access_denied) The user denied the request")

\* read_google_doc and generate_user_stories from `document_id =
\* args.get("document_id")` up to documents().get(...).execute()
gdoc_request(args) ==
    IF ~truthy(get(args, "document_id"))
    THEN Ends(Return(CallToolResult(<<TextContent("Error: document_id is required")>>, TRUE)))
    ELSE Fetches(get(args, "document_id")[1])

\* documents().get(documentId=document_id).execute() once its request is
\* answered
execute(response, attempt) ==
    [again |-> FALSE,
     out |-> IF response.exc # "" THEN Raise(response.exc, response.msg)
             ELSE IF response.status # 200
             THEN Raise("HttpError", "<HttpError " \o ToString(response.status)
                                     \o " when requesting the document>")
             ELSE Return(response.json)]

\* extract_text_from_doc(document): a document is [title, content], title
\* a string or None (no such key), content the structural elements
\* [paragraph, elements], paragraph FALSE for an element of another kind,
\* elements the [textRun, content] of the paragraph
extract_text_from_doc(document) ==
    concat([k \in 1..Len(document.content) |->
        IF document.content[k].paragraph
        THEN concat([j \in 1..Len(document.content[k].elements) |->
                 IF document.content[k].elements[j].textRun
                 THEN document.content[k].elements[j].content ELSE ""])
        ELSE ""])

read_google_doc_rest(args, document) ==
    Return(CallToolResult(<<TextContent(
        "Document: " \o (IF document.title = None THEN "Untitled" ELSE document.title[1])
        \o "\n\nContent:\n"
        \o extract_text_from_doc(document))>>, FALSE))

gdoc_generate_user_stories_rest(args, document) ==
    Return(CallToolResult(<<TextContent(
        "Generated User Stories from: "
        \o (IF document.title = None THEN "Untitled" ELSE document.title[1]) \o "\n\n"
        \o join("\n\n", generate_stories_from_content(extract_text_from_doc(document),
                                                       get_or(args, "feature_focus", ""))))>>,
        FALSE))

\* ------------------------------------------------------------------------
\* Both servers: a call of a tool method, cut at its remote request
\* ------------------------------------------------------------------------

GithubTools == {"read_business_requirements", "analyze_requirements_structure",
                "generate_user_stories_from_requirements"}
GdocTools == {"read_google_doc", "generate_user_stories"}

\* The text the except clause of the tool method puts before str(e)
error_prefix(tool) ==
    CASE tool = "read_business_requirements" -> "Error reading business requirements: "
      [] tool = "analyze_requirements_structure" -> "Error analyzing requirements: "
      [] tool = "generate_user_stories_from_requirements" -> "Error generating user stories: "
      [] tool = "read_google_doc" -> "Error reading document: "
      [] tool = "generate_user_stories" -> "Error generating stories: "

request_of(tool, args) ==
    CASE tool = "read_business_requirements" -> read_business_requirements_request(args)
      [] tool = "analyze_requirements_structure" -> locate(args)
      [] tool = "generate_user_stories_from_requirements" -> locate(args)
      [] tool \in GdocTools -> gdoc_request(args)

rest_of(tool, args, json) ==
    CASE tool = "read_business_requirements" -> read_business_requirements_rest(args, json)
      [] tool = "analyze_requirements_structure" ->
             analyze_requirements_structure_rest(args, json)
      [] tool = "generate_user_stories_from_requirements" ->
             generate_user_stories_from_requirements_rest(args, json)
      [] tool = "read_google_doc" -> read_google_doc_rest(args, json)
      [] tool = "generate_user_stories" -> gdoc_generate_user_stories_rest(args, json)

\* The tool method from its entry to its request or, when it ends before
\* one, its result: [auth, service, fetch, url, result]. auth: it called
\* authenticate_google; service: docs_service is built afterwards.
began(tool, needs_auth, service, step) ==
    [auth |-> needs_auth, service |-> service, fetch |-> step.fetch, url |-> step.url,
     result |-> try_except(step.out, error_prefix(tool))]

\* `if not self.docs_service: await self.authenticate_google()`, login what
\* that gave, and the tool method from there to its request
logged_in(tool, args, needs_auth, service, login) ==
    began(tool, needs_auth, IF needs_auth THEN login.exc = "" ELSE service,
          IF login.exc # "" THEN Ends(login) ELSE request_of(tool, args))

begin(tool, args, service, env) ==
    logged_in(tool, args, tool \in GdocTools /\ ~service, service,
              IF tool \in GdocTools /\ ~service THEN authenticate_google(env) ELSE Return(TRUE))

\* The tool method from the answer to its request on: [again, result]
resumed(tool, args, got) ==
    IF got.again THEN [again |-> TRUE, result |-> <<>>]
    ELSE [again |-> FALSE,
          result |-> try_except(IF got.out.exc # "" THEN got.out
                                ELSE rest_of(tool, args, got.out.val),
                                error_prefix(tool))]

resume(tool, args, response, attempt) ==
    resumed(tool, args, IF tool \in GithubTools THEN fetch_github_api(response, attempt)
                        ELSE execute(response, attempt))

\* ------------------------------------------------------------------------
\* State
\* ------------------------------------------------------------------------

VARIABLES
    \* a call of generate_user_stories: its arguments and its result
    requirements, user_personas, story_format, max_stories, stories,
    \* a call of extract_requirements_from_document or of
    \* analyze_document_structure: its arguments and its result
    content, feature_focus, extracted, analysis,
    \* a call of a tool method: where it is ("idle": no call, "waiting":
    \* its request is sent, "done": it has ended), its name and arguments,
    \* whether it called authenticate_google, how many requests for the
    \* document it has sent, the last of them and the answer to it, and
    \* what the call ended with
    pc, tool, args, auth_started, fetches, request, response, result,
    \* docs_service of the UserStoryMCPServer is built
    docs_service,
    \* the calls of analyze_document_structure,
    \* extract_requirements_from_document and generate_user_stories that one
    \* server object has taken so far: method, arguments and output of each
    history

storyVars == <<requirements, user_personas, story_format, max_stories, stories>>
documentVars == <<content, feature_focus, extracted, analysis>>
toolVars == <<pc, tool, args, auth_started, fetches, request, response, result, docs_service>>
vars == <<storyVars, documentVars, toolVars, history>>

\* The result of a call that has not been made yet
Pending == [exc |-> "pending", val |-> <<>>]

NoStoryCall ==
    /\ requirements = <<>> /\ user_personas = <<>> /\ story_format = "standard"
    /\ max_stories = 10 /\ stories = Pending

NoDocumentCall ==
    /\ content = "" /\ feature_focus = "" /\ extracted = Pending /\ analysis = Pending

NoResponse == [exc |-> "", msg |-> "", status |-> 0, json |-> <<>>]

NoToolCall ==
    /\ pc = "idle" /\ tool = "" /\ args = <<>> /\ auth_started = FALSE /\ fetches = 0
    /\ request = "" /\ response = NoResponse /\ result = <<>>
    /\ docs_service = FALSE

\* ------------------------------------------------------------------------
\* SpecStories: generate_user_stories applied to every argument tuple
\* ------------------------------------------------------------------------

MaxReqs == 5
MaxPersonas == 2
MaxStories == 6

\* Requirement phrases of every shape the derivation of action and benefit
\* tells apart
ReqPool ==
    << "user must export data",
       "The System shall provide Reports so that  managers can plan.",
       "allows users to login",
       "to search the archive in order to find old orders",
       "be able to upload files",
       "Export invoices",
       "approve requests enabling faster delivery.",
       "to provide monthly reports",
       "",
       "save the draft so that  ",
       "the system must ",
       "enabling quick exports so that managers can plan",
       "view the reports after login" >>

InitStories ==
    \* at most MaxReqs consecutive phrases of the pool
    /\ \E a \in 1..Len(ReqPool), b \in 0..Len(ReqPool) :
          /\ Len(SubSeq(ReqPool, a, b)) <= MaxReqs
          /\ requirements = SubSeq(ReqPool, a, b)
    \* the first personas of src/business_requirements_test.py
    /\ \E n \in 0..MaxPersonas :
          user_personas = SubSeq(<<"customer", "admin", "manager", "developer", "user">>, 1, n)
    /\ story_format \in {"standard", "detailed", "agile", "", "Agile", "DETAILED", "xml"}
    /\ max_stories \in -1..MaxStories
    /\ stories = Pending
    /\ NoDocumentCall
    /\ NoToolCall
    /\ history = <<>>

CallGenerateUserStories ==
    /\ stories = Pending
    /\ stories' = generate_user_stories(requirements, user_personas, story_format, max_stories)
    /\ UNCHANGED <<requirements, user_personas, story_format, max_stories, documentVars, toolVars, history>>

NextStories == CallGenerateUserStories

SpecStories == InitStories /\ [][NextStories]_vars

\* ------------------------------------------------------------------------
\* SpecExtract: extract_requirements_from_document applied to documents long
\* enough to reach the cap
\* ------------------------------------------------------------------------

MaxExtractLines == 11

InitExtract ==
    \* The documents of at most MaxExtractLines lines: a list items that match
    \* a requirement pattern too (two phrases each), then b sentences that
    \* only match a requirement pattern (one phrase each), then c lines that
    \* give no phrase
    /\ \/ \E a \in 0..MaxExtractLines, b \in 0..MaxExtractLines, c \in 0..2 :
             /\ a + b + c <= MaxExtractLines
             /\ content = join("\n", [k \in 1..a |-> "- the user must be able to login"]
                                      \o [k \in 1..b |-> "the system shall export reports"]
                                      \o [k \in 1..c |-> "Nothing to do here"])
       \* and the documents of one or two lines about login or export, plain
       \* or numbered, of words far apart, or matching two patterns
       \/ \E n \in 1..2 :
             \E lines \in [1..n -> {"system must allow login", "system must allow export",
                                      "1. The user can reset a password after login",
                                      "12. The system shall export an invoice",
                                      "the system must  a    b     c",
                                      "feature: users must log in"}] :
                 content = join("\n", lines)
    /\ feature_focus \in {"", "login", "SYSTEM"}
    /\ extracted = Pending
    /\ analysis = Pending
    /\ NoStoryCall
    /\ NoToolCall
    /\ history = <<>>

CallExtractRequirements ==
    /\ extracted = Pending
    /\ extracted' = Return(extract_requirements_from_document(content, feature_focus))
    /\ UNCHANGED <<content, feature_focus, analysis, storyVars, toolVars, history>>

NextExtract == CallExtractRequirements

SpecExtract == InitExtract /\ [][NextExtract]_vars

\* ------------------------------------------------------------------------
\* SpecAnalyze: analyze_document_structure applied to short documents of
\* every kind of line
\* ------------------------------------------------------------------------

MaxAnalyzeLines == 3

MaxKeywordLines == 22

InitAnalyze ==
    \* The documents of at most MaxAnalyzeLines lines of every kind, the
    \* documents of at most MaxKeywordLines requirement lines, the
    \* documents of a header candidate of some length with a header after
    \* it, the documents of an underlined title, and some documents that
    \* name roles in several ways
    /\ \/ \E n \in 0..MaxAnalyzeLines :
             \E lines \in [1..n -> { "", "OVERVIEW", "# Introduction", "1. Scope of the work",
                                      "The admin must be able to login", "nothing to see here",
                                      "  Users must log in " }] :
                 content = join("\n", lines)
       \/ \E n \in 0..MaxKeywordLines :
             content = join("\n", [k \in 1..n |-> "The admin must log in"])
       \/ \E n \in {1, 3, 4, 99, 100, 101}, mark \in {"# ", "12. "} :
             content = join("\n", <<mark \o times("x", n), "# Introduction">>)
       \/ \E underline \in {"===============", "---------------", "==="} :
             content = join("\n", <<"Project Summary", underline>>)
       \/ content \in { "Reports for admin and manager",
                         "Reports for admin and manager\nThe admin must be able to login",
                         "As a manager I can approve\nThe manager can approve\nuser can login",
                         "role: user\nthe system must log\nas a user" }
    /\ feature_focus = ""
    /\ extracted = Pending
    /\ analysis = Pending
    /\ NoStoryCall
    /\ NoToolCall
    /\ history = <<>>

CallAnalyzeDocumentStructure ==
    /\ analysis = Pending
    /\ analysis' = analyze_document_structure(content)
    /\ UNCHANGED <<content, feature_focus, extracted, storyVars, toolVars, history>>

NextAnalyze == CallAnalyzeDocumentStructure

SpecAnalyze == InitAnalyze /\ [][NextAnalyze]_vars

\* ------------------------------------------------------------------------
\* SpecCalls: one server object takes several calls of
\* analyze_document_structure, extract_requirements_from_document and
\* generate_user_stories, in any order and with any arguments. None of the
\* three reads or assigns an attribute of self (341-505): what a call
\* leaves behind is its return value alone.
\* ------------------------------------------------------------------------

MaxCalls == 3

InitCalls == NoStoryCall /\ NoDocumentCall /\ NoToolCall /\ history = <<>>

AnalyzeDocumentStructure(document) ==
    /\ Len(history) < MaxCalls
    /\ content' = document
    /\ analysis' = analyze_document_structure(document)
    /\ history' = Append(history, [method |-> "analyze_document_structure",
                                   arguments |-> <<document>>,
                                   output |-> analysis'])
    /\ UNCHANGED <<feature_focus, extracted, storyVars, toolVars>>

\* An extraction that keeps its list on the object and appends to it in
\* every call
ExtractRequirementsAccumulating(document, focus) ==
    /\ Len(history) < MaxCalls
    /\ content' = document
    /\ feature_focus' = focus
    /\ extracted' = Return(slice_to(extracted.val
                                      \o extract_requirements_uncapped(document, focus),
                                    MaxRequirements))
    /\ history' = Append(history, [method |-> "extract_requirements_from_document",
                                   arguments |-> <<document, focus>>,
                                   output |-> extracted'])
    /\ UNCHANGED <<analysis, storyVars, toolVars>>

ExtractRequirementsFromDocument(document, focus) ==
    /\ Len(history) < MaxCalls
    /\ content' = document
    /\ feature_focus' = focus
    /\ extracted' = Return(extract_requirements_from_document(document, focus))
    /\ history' = Append(history, [method |-> "extract_requirements_from_document",
                                   arguments |-> <<document, focus>>,
                                   output |-> extracted'])
    /\ UNCHANGED <<analysis, storyVars, toolVars>>

GenerateUserStories(reqs, personas, format_, limit) ==
    /\ Len(history) < MaxCalls
    /\ requirements' = reqs
    /\ user_personas' = personas
    /\ story_format' = format_
    /\ max_stories' = limit
    /\ stories' = generate_user_stories(reqs, personas, format_, limit)
    /\ history' = Append(history, [method |-> "generate_user_stories",
                                   arguments |-> <<reqs, personas, format_, limit>>,
                                   output |-> stories'])
    /\ UNCHANGED <<documentVars, toolVars>>

NextCalls ==
    \/ \E document \in {"# Introduction\nThe admin must be able to login",
                         "- the user must be able to login\nthe system shall export reports"} :
          \/ AnalyzeDocumentStructure(document)
          \/ \E focus \in {"", "export"} : ExtractRequirementsFromDocument(document, focus)
    \/ \E n \in 0..1, personas \in {<<"customer">>, <<"customer", "admin">>} :
          GenerateUserStories(SubSeq(ReqPool, 1, n), personas, "agile", 10)

SpecCalls == InitCalls /\ [][NextCalls]_vars

\* ------------------------------------------------------------------------
\* SpecTools: the tool methods of both servers, one call at a time, with
\* every kind of argument dictionary and every kind of answer
\* ------------------------------------------------------------------------

\* The argument dictionaries of a call of the tool: each required key
\* missing, empty or given, along with some of the optional keys
ArgumentDicts(name) ==
    LET values == IF name \in GithubTools
                  THEN [repo_url |-> {"", "github.com",
                            "https://github.com/eldhobehanan/user-story-mcp-server"},
                        file_path |-> {"", "docs/requirements.md"}]
                  ELSE [document_id |-> {"", "doc-1"}]
        \* the dictionaries with some of the keys, each with one of its values
        required ==
            {d \in UNION {[keys -> UNION {values[k] : k \in keys}] :
                              keys \in SUBSET DOMAIN values} :
                \A k \in DOMAIN d : d[k] \in values[k]}
        optional ==
            IF name = "generate_user_stories_from_requirements"
            THEN { <<>>,
                   [user_personas |-> <<>>],
                   [user_personas |-> <<"customer", "admin">>, feature_focus |-> "login",
                    story_format |-> "agile", max_stories |-> 1, branch |-> "master"] }
            ELSE IF name \in GithubTools THEN {<<>>, [branch |-> "master"]}
            ELSE {<<>>, [feature_focus |-> "login"]}
    IN {r @@ o : r \in required, o \in optional}

\* The environments of authenticate_google

\* The bodies of a 200 of the GitHub contents API: files whose text has a
\* header without a group and requirement sentences, a file that is not
\* UTF-8, one that is not base64, one sent without encoding, and the
\* listing of a directory
GithubBodies ==
    {[kind |-> "file", encoding |-> "base64", valid |-> TRUE, raw |-> "", bytes |-> bytes] :
        bytes \in { << [ok |-> TRUE, text |-> "OVERVIEW\nThe admin must be able to login"] >>,
                    << [ok |-> TRUE,
                        text |-> "# Requirements\n- the user must be able to login\n"
                                 \o "the system shall export reports"] >>,
                    << [ok |-> TRUE, text |-> "the user must "], [ok |-> FALSE, text |-> ""],
                       [ok |-> TRUE, text |-> "be able to login"] >> }}
    \cup { [kind |-> "file", encoding |-> "base64", valid |-> FALSE, raw |-> "", bytes |-> <<>>],
           [kind |-> "file", encoding |-> "none", valid |-> TRUE, raw |-> "", bytes |-> <<>>],
           [kind |-> "list", encoding |-> "", valid |-> TRUE, raw |-> "", bytes |-> <<>>] }

\* The documents of the Google Docs API
GdocBodies ==
    { [title |-> None, content |-> <<>>],
      [title |-> <<"Requirements">>,
       content |-> << [paragraph |-> FALSE, elements |-> <<>>],
                      [paragraph |-> TRUE,
                       elements |->
                           << [textRun |-> TRUE, content |-> "Users should be able to login\n"],
                              [textRun |-> TRUE,
                               content |-> "The system shall export reports\n"] >>] >>],
      \* a heading, a short line and six requirement lines
      [title |-> <<"Backlog">>,
       content |-> << [paragraph |-> TRUE,
                       elements |->
                           << [textRun |-> TRUE,
                               content |-> "# Users must see this heading\nshort user\n"
                                           \o "The system must send invoices\n"
                                           \o "User should reset a password\n"
                                           \o "Customers need monthly reports\n"],
                              [textRun |-> TRUE,
                               content |-> "The admin must approve refunds\n"
                                           \o "Allow managers to export data\n"
                                           \o "Provide a search for orders\n"] >>] >>] }

\* The answers to a request
Responses(name) ==
    {[exc |-> "", msg |-> "", status |-> 200, json |-> body] :
        body \in IF name \in GithubTools THEN GithubBodies ELSE GdocBodies}
    \cup {[exc |-> "", msg |-> "", status |-> s, json |-> <<>>] : s \in {404, 403, 500}}
    \cup {[exc |-> "ClientConnectorError", msg |-> "Cannot connect to host", status |-> 0,
           json |-> <<>>]}

InitTools == NoToolCall /\ NoStoryCall /\ NoDocumentCall /\ history = <<>>

\* call_tool dispatches to the tool method, which runs up to its request
\* for the document or, when it ends before one, to its end
Begun(name, arguments, b) ==
    /\ tool' = name
    /\ args' = arguments
    /\ auth_started' = b.auth
    /\ docs_service' = b.service
    /\ pc' = IF b.fetch THEN "waiting" ELSE "done"
    /\ fetches' = IF b.fetch THEN 1 ELSE 0
    /\ request' = b.url
    /\ result' = b.result

CallTool(name, arguments, env) ==
    /\ pc = "idle"
    /\ Begun(name, arguments, begin(name, arguments, docs_service, env))
    /\ UNCHANGED <<response, storyVars, documentVars, history>>

\* The request is answered and the tool method runs on: to a further
\* request, or to its end
Resumed(answer, r) ==
    /\ response' = answer
    /\ pc' = IF r.again THEN "waiting" ELSE "done"
    /\ fetches' = IF r.again THEN fetches + 1 ELSE fetches
    /\ result' = r.result

Answer(answer) ==
    /\ pc = "waiting"
    /\ Resumed(answer, resume(tool, args, answer, fetches))
    /\ UNCHANGED <<tool, args, auth_started, request, docs_service, storyVars, documentVars, history>>

\* The caller has the result; the server takes the next call
Finish ==
    /\ pc = "done"
    /\ pc' = "idle" /\ tool' = "" /\ args' = <<>> /\ auth_started' = FALSE /\ fetches' = 0
    /\ request' = "" /\ response' = NoResponse /\ result' = <<>>
    /\ UNCHANGED <<docs_service, storyVars, documentVars, history>>

NextTools ==
    \* with token.json missing, valid or expired, credentials.json there or
    \* not, and the refresh or the OAuth flow working or not
    \/ \E name \in GithubTools \cup GdocTools,
          env \in [token : {"missing", "valid", "expired"}, credentials_json : BOOLEAN,
                   remote_ok : BOOLEAN] :
           \E arguments \in ArgumentDicts(name) : CallTool(name, arguments, env)
    \/ \E answer \in Responses(tool) : Answer(answer)
    \/ Finish

SpecTools == InitTools /\ [][NextTools]_vars

\* ------------------------------------------------------------------------
\* Claims
\* ------------------------------------------------------------------------

min(a, b) == IF a < b THEN a ELSE b

\* The call has returned, and raised nothing
returned(outcome) == outcome.exc = ""

\* The persona the cycle gives story k, k counted from 1
persona_of(k) == user_personas[((k - 1) % Len(user_personas)) + 1]

\* C1: for a non-empty requirements list, a non-empty persona list, any
\* format and a positive max_stories, generate_user_stories returns exactly
\* min(len(requirements), max_stories) stories.
C1_StoryCount ==
    (stories # Pending /\ requirements # <<>> /\ user_personas # <<>> /\ max_stories >= 1)
        => /\ returned(stories)
           /\ Len(stories.val) = min(Len(requirements), max_stories)

\* A call that max_stories cuts short
C1_Witness ==
    /\ returned(stories) /\ user_personas # <<>>
    /\ max_stories >= 2 /\ Len(requirements) > max_stories
    /\ Len(stories.val) = max_stories

\* C2: with an empty persona list generate_user_stories raises nothing and
\* returns the stories rendered for the persona "user", for empty and
\* non-empty requirements alike.
C2_EmptyPersonasGetUser ==
    (stories # Pending /\ user_personas = <<>> /\ max_stories >= 1)
        => /\ returned(stories)
           /\ stories.val =
                generate_user_stories(requirements, <<"user">>, story_format, max_stories).val

\* C3: for an empty requirements list generate_user_stories returns exactly
\* one story, the default story, rendered for personas[0] or, without
\* personas, for "user"; whatever the format and max_stories.
C3_DefaultStory ==
    (stories # Pending /\ requirements = <<>>)
        => /\ returned(stories)
           /\ Len(stories.val) = 1
           /\ stories.val[1] = generate_default_story(IF user_personas # <<>>
                                                      THEN user_personas[1] ELSE "user")
           /\ contains(stories.val[1],
                       "As a " \o (IF user_personas # <<>> THEN user_personas[1] ELSE "user")
                       \o ", I want to use the system features")

C3_Witness ==
    /\ returned(stories) /\ requirements = <<>> /\ user_personas = <<>>
    /\ max_stories <= 0 /\ story_format = "agile"
    /\ Len(stories.val) = 1 /\ contains(stories.val[1], "As a user, I want to")

\* C4: with a non-empty persona list, story i (0-based) is rendered for
\* personas[i mod len(personas)].
C4_PersonaCycle ==
    (returned(stories) /\ requirements # <<>> /\ user_personas # <<>>)
        => \A k \in 1..Len(stories.val) :
              /\ contains(stories.val[k], "As a " \o persona_of(k) \o ", I want to ")
              /\ \A q \in 1..Len(user_personas) :
                    user_personas[q] # persona_of(k)
                        => ~contains(stories.val[k], "As a " \o user_personas[q] \o ", I want to ")

\* 2 personas and 5 requirements: p0, p1, p0, p1, p0
C4_Witness ==
    /\ returned(stories) /\ Len(user_personas) = 2 /\ Len(stories.val) = 5
    /\ \A k \in {1, 3, 5} : contains(stories.val[k], "As a " \o user_personas[1] \o ",")
    /\ \A k \in {2, 4} : contains(stories.val[k], "As a " \o user_personas[2] \o ",")

\* C5: extract_requirements_from_document returns at most 20 phrases,
\* pattern-derived and list-item phrases counted together.
C5_AtMostTwenty ==
    returned(extracted) => Len(extracted.val) <= 20

\* A document with more than 20 candidate phrases, of both kinds
C5_Witness ==
    /\ returned(extracted)
    /\ Len(all_phrases(split(content, "\n"), feature_focus)) > 20
    /\ Len(extracted.val) = 20
    /\ extracted.val[1] # extracted.val[2]

\* C6: analyze_document_structure returns a profile for every document and
\* never raises, whichever header rule a line matches.
C6_AnalyzeNeverRaises ==
    analysis # Pending => returned(analysis)

\* The call in progress lacks a required parameter, or has it empty
RequiredMissing ==
    IF tool \in GithubTools
    THEN ~truthy(get(args, "repo_url")) \/ ~truthy(get(args, "file_path"))
    ELSE tool \in GdocTools /\ ~truthy(get(args, "document_id"))

\* The request of the call was answered with a failure
FetchFailed ==
    fetches >= 1 /\ response # NoResponse /\ (response.exc # "" \/ response.status # 200)

\* The call failed: it ended before its request, its request failed, or
\* what it did with the answer raised
CallFailed ==
    \/ fetches = 0
    \/ FetchFailed
    \/ rest_of(tool, args, response.json).exc # ""

\* The call ended with an error result of one non-empty text item
ErrorResult ==
    /\ result.escaped = "" /\ result.isError = TRUE
    /\ Len(result.content) = 1
    /\ result.content[1].type = "text" /\ result.content[1].text # ""

\* C7: a tool method of either server never lets an exception escape:
\* whatever the argument dictionary and the answer to its request, it ends
\* with a CallToolResult, and when the call failed that result has isError
\* and one text item.
C7_NoExceptionEscapes ==
    pc = "done" => /\ result.escaped = ""
                   /\ CallFailed => ErrorResult

\* The transport raises inside analyze_requirements_structure
C7_Witness ==
    /\ pc = "done" /\ tool = "analyze_requirements_structure"
    /\ response.exc = "ClientConnectorError"
    /\ result.escaped = "" /\ result.isError
    /\ result.content = <<TextContent("Error analyzing requirements: Cannot connect to host")>>

\* C8: when a required parameter is missing or empty, the call ends at once
\* with an error result: no request for the document is sent and
\* authenticate_google is not called.
C8_MissingParameterFirst ==
    (pc # "idle" /\ RequiredMissing)
        => /\ pc = "done" /\ result.isError
           /\ fetches = 0
           /\ ~auth_started

\* C9: a call of a tool method sends at most one request for the document,
\* and when that request fails the call ends with an error result and no
\* second request.
C9_NoRetry ==
    /\ fetches <= 1
    /\ (pc # "idle" /\ FetchFailed) => (pc = "done" /\ fetches = 1 /\ result.isError)

\* read_business_requirements is refused by GitHub and ends
C9_Witness ==
    /\ pc = "done" /\ tool = "read_business_requirements"
    /\ fetches = 1 /\ response.status = 403
    /\ result.isError
    /\ result.content[1].text = "Error reading business requirements: "
                                \o "Access denied. Check GitHub token or repository permissions"

\* C10: for a format other than "detailed" and "agile" every story is the
\* Standard rendering of its ordinal, persona, action and benefit, and the
\* format causes no error: the call ends as it does for "standard".
C10_OtherFormatIsStandard ==
    (stories # Pending /\ story_format \notin {"detailed", "agile"})
        => /\ stories = generate_user_stories(requirements, user_personas, "standard",
                                              max_stories)
           /\ (requirements # <<>> /\ user_personas # <<>>)
                 => /\ returned(stories)
                    /\ \A k \in 1..Len(stories.val) :
                          stories.val[k] =
                            generate_standard_story(k, persona_of(k),
                                extract_action_from_requirement(requirements[k]),
                                extract_benefit_from_requirement(requirements[k]))

C10_Witness ==
    /\ returned(stories) /\ story_format = "Agile" /\ Len(stories.val) >= 2
    /\ startswith(stories.val[2], "**User Story 2:**\nAs a ")
    /\ ~contains(stories.val[2], "Story Points")

\* ------------------------------------------------------------------------
\* C11: with n the number of requirement lines that analyze_document_structure
\* found, complexity_level is "High" exactly when n >= 21, "Low" exactly when
\* n <= 4 and "Medium" exactly when 5 <= n <= 20.
\* ------------------------------------------------------------------------
C11_ComplexityTiers ==
    returned(analysis) =>
        LET n == Len(analysis.val.requirements)
            level == analysis.val.complexity_level
        IN /\ level \in {"High", "Low", "Medium"}
           /\ level = "High" <=> n >= 21
           /\ level = "Low" <=> n <= 4
           /\ level = "Medium" <=> (5 <= n /\ n <= 20)

\* A document of 21 requirement lines has been rated "High"
C11_Witness ==
    /\ returned(analysis)
    /\ Len(analysis.val.requirements) = 21
    /\ analysis.val.complexity_level = "High"

\* ------------------------------------------------------------------------
\* C12: estimated_stories is the number of requirement lines clamped to
\* 3..15: 3 for at most 3 requirement lines (the empty document too), the
\* number itself from 3 to 15, and 15 for more than 15.
\* ------------------------------------------------------------------------
C12_EstimateClamped ==
    returned(analysis) =>
        LET n == Len(analysis.val.requirements)
            estimated == analysis.val.estimated_stories
        IN /\ estimated \in 3..15
           /\ n <= 3 => estimated = 3
           /\ (3 <= n /\ n <= 15) => estimated = n
           /\ n > 15 => estimated = 15
           /\ content = "" => estimated = 3

\* A document of more than 15 requirement lines has been estimated at 15
C12_Witness ==
    /\ returned(analysis)
    /\ Len(analysis.val.requirements) > 15
    /\ analysis.val.estimated_stories = 15

\* ------------------------------------------------------------------------
\* C13: every header that analyze_document_structure returns is trimmed and
\* more than 3 and fewer than 100 characters long; a header candidate of
\* another length is dropped without an error, and the lines after it are
\* still analyzed.
\* ------------------------------------------------------------------------
C13_HeaderLengths ==
    returned(analysis) =>
        LET headers == analysis.val.headers
            lines == split(content, "\n")
        IN /\ \A k \in 1..Len(headers) :
                 /\ headers[k] = strip(headers[k])
                 /\ 3 < Len(headers[k]) /\ Len(headers[k]) < 100
           \* the documents of a candidate and a header after it
           /\ \A mark \in {"# ", "12. "} :
                 (Len(lines) = 2 /\ startswith(lines[1], mark \o "x")
                                 /\ lines[2] = "# Introduction") =>
                     LET candidate == SubSeq(lines[1], Len(mark) + 1, Len(lines[1]))
                     IN headers = IF 3 < Len(candidate) /\ Len(candidate) < 100
                                  THEN <<candidate, "Introduction">>
                                  ELSE <<"Introduction">>

\* A header candidate of 100 characters has been dropped and the header of
\* the next line returned
C13_Witness ==
    /\ returned(analysis)
    /\ content = join("\n", <<"# " \o times("x", 100), "# Introduction">>)
    /\ analysis.val.headers = <<"Introduction">>

\* ------------------------------------------------------------------------
\* C14: with a non-empty feature_focus a line whose lowercased text does not
\* contain the lowercased focus gives no phrase, by the requirement patterns
\* or by the list-item check: the result is that of the lines that do
\* contain it. For the lines "system must allow login" and "system must
\* allow export" and the focus "login" it is the phrase of the first line
\* alone.
\* ------------------------------------------------------------------------

\* The lines of the document that contain the focus, in lowercase
focused_lines(lines, focus) ==
    flat([k \in 1..Len(lines) |->
            IF contains(lower(lines[k]), lower(focus)) THEN <<lines[k]>> ELSE <<>>])

C14_FocusFilter ==
    (returned(extracted) /\ feature_focus # "") =>
        LET lines == split(content, "\n")
        IN /\ extracted.val =
                extract_requirements_from_document(
                    join("\n", focused_lines(lines, feature_focus)), "")
           /\ (lines = <<"system must allow login", "system must allow export">>
                  /\ feature_focus = "login") => extracted.val = <<"allow login">>

\* The focus "login" has kept the phrase of the login line and dropped the
\* export line
C14_Witness ==
    /\ returned(extracted)
    /\ content = "system must allow login\nsystem must allow export"
    /\ feature_focus = "login"
    /\ extracted.val = <<"allow login">>

C16_FormatFidelity ==
    (returned(stories) /\ requirements # <<>>) =>
        \A k \in 1..Len(stories.val) :
            /\ story_format = "agile" =>
                  /\ contains(stories.val[k], "**Acceptance Criteria:**\n- [ ] ")
                  /\ Cardinality({i \in 1..(Len(stories.val[k]) - 5) :
                                     SubSeq(stories.val[k], i, i + 5) = "\n- [ ]"}) = 4
                  /\ contains(stories.val[k], "**Story Points:**")
            /\ story_format = "detailed" =>
                  contains(stories.val[k],
                           "**Original Requirement:**\n" \o requirements[k] \o "\n\n")

\* A detailed story quotes a requirement with its capitals and its double
\* space
C16_Witness ==
    /\ returned(stories) /\ story_format = "detailed"
    /\ Len(stories.val) >= 1 /\ requirements # <<>>
    /\ requirements[1] = "The System shall provide Reports so that  managers can plan."
    /\ contains(stories.val[1],
                "\nThe System shall provide Reports so that  managers can plan.\n")

\* ------------------------------------------------------------------------
\* C17: extract_action_from_requirement strips prefixes until none is left:
\* unless it fell back to the lowercased phrase, its result begins with
\* none of the three prefixes, and the function applied to its own result
\* returns that result.
\* ------------------------------------------------------------------------
C17_ActionIsStrippedToTheEnd ==
    stories # Pending =>
        \A k \in 1..Len(requirements) :
            LET action == extract_action_from_requirement(requirements[k])
            IN /\ extract_action_from_requirement(action) = action
               /\ action # lower(requirements[k]) =>
                     /\ ~re_match(action_subject_prefix, action).ok
                     /\ ~re_match(action_verb_prefix, action).ok
                     /\ ~startswith(action, "to ")

\* ------------------------------------------------------------------------
\* C18: for every phrase, the empty one, one of white space, one that is
\* only a prefix and one that ends in "so that" and white space included,
\* extract_action_from_requirement and extract_benefit_from_requirement
\* return a non-empty string.
\* ------------------------------------------------------------------------
C18_ActionAndBenefitNonEmpty ==
    stories # Pending =>
        \A k \in 1..Len(requirements) :
            /\ extract_action_from_requirement(requirements[k]) # ""
            /\ extract_benefit_from_requirement(requirements[k]) # ""

\* ------------------------------------------------------------------------
\* C19: the phrase that the list-item check of
\* extract_requirements_from_document appends for a bullet or numbered line
\* is the line without its marker: it begins with no bullet character, no
\* digit of the number and not with the dot after the number.
\* ------------------------------------------------------------------------
C19_ListMarkerRemoved ==
    returned(extracted) =>
        LET lines == split(content, "\n")
        IN \A k \in 1..Len(lines) :
              LET item == phrase_by_list_item(strip(lines[k]))
              IN item # <<>> => Ch(item[1], 1) \notin Chars("*-+." \o BULLET \o DIGITS)

\* ------------------------------------------------------------------------
\* C20: the requirements list of analyze_document_structure holds, in
\* document order, the trimmed lines whose lowercased text contains a
\* requirement keyword, whatever their length: the whole line, not a phrase
\* derived from it.
\* ------------------------------------------------------------------------
C20_KeywordLinesOfAnyLength ==
    returned(analysis) =>
        LET lines == split(content, "\n")
        IN analysis.val.requirements =
              flat([k \in 1..Len(lines) |->
                      IF \E keyword \in requirement_keywords :
                            contains(lower(strip(lines[k])), keyword)
                      THEN <<strip(lines[k])>> ELSE <<>>])

\* ------------------------------------------------------------------------
\* C21: analyze_document_structure reports an underlined heading: a line of
\* text with a line of only "=" or only "-" right after it is in headers, as
\* the text of the line, when it is more than 3 and fewer than 100
\* characters long.
\* ------------------------------------------------------------------------
C21_UnderlinedHeadings ==
    returned(analysis) =>
        LET lines == split(content, "\n")
        IN \A k \in 1..(Len(lines) - 1) :
              LET text == strip(lines[k])
                  under == strip(lines[k + 1])
              IN (/\ 3 < Len(text) /\ Len(text) < 100
                  /\ under # ""
                  /\ Chars(under) = {"="} \/ Chars(under) = {"-"}
                  /\ Chars(text) \cap {"=", "-"} = {})
                 => \E h \in 1..Len(analysis.val.headers) : analysis.val.headers[h] = text

\* ------------------------------------------------------------------------
\* C22: a phrase that extract_requirements_from_document derives by a
\* requirement pattern is trimmed, has single spaces for its runs of white
\* space, and is longer than 10 characters as it is returned.
\* ------------------------------------------------------------------------
C22_PatternPhraseNormalised ==
    returned(extracted) =>
        LET lines == split(content, "\n")
        IN \A k \in 1..Len(lines) :
              phrases_of_line(lines[k], feature_focus) # <<>> =>
                 LET derived == phrase_by_pattern(lower(strip(lines[k])), 1)
                 IN \A j \in 1..Len(derived) :
                       /\ derived[j] = strip(derived[j])
                       /\ \A i \in 1..Len(derived[j]) :
                             Ch(derived[j], i) \in Space =>
                                 /\ Ch(derived[j], i) = " "
                                 /\ Ch(derived[j], i + 1) \notin Space
                       /\ Len(derived[j]) > 10

\* ------------------------------------------------------------------------
\* C23: extract_benefit_from_requirement takes the benefit from the first
\* of the patterns "so that", "in order to", "to ensure", "enabling",
\* "resulting in", in this order, that matches the lowercased phrase,
\* wherever in the phrase it matches; when none matches, from the first
\* keyword of the table, in the order of the table, that the phrase
\* contains; when there is none, it is the generic benefit.
\* ------------------------------------------------------------------------
C23_BenefitPriority ==
    \* every phrase of the pool is the first requirement of some call
    (returned(stories) /\ requirements # <<>> /\ stories.val # <<>>) =>
            LET req_lower == lower(requirements[1])
                benefit == extract_benefit_from_requirement(requirements[1])
                matching == {p \in 1..Len(benefit_patterns) :
                                re_search(benefit_patterns[p], req_lower).ok}
                keywords == {m \in 1..Len(benefit_mapping) :
                                contains(req_lower, benefit_mapping[m][1])}
            IN IF matching # {}
               THEN /\ benefit = strip(group1(req_lower,
                                     re_search(benefit_patterns[MinOf(matching)], req_lower)))
                    /\ contains(req_lower, benefit)
                    /\ contains(stories.val[1], ", so that " \o benefit \o ".")
               ELSE IF keywords # {} THEN benefit = benefit_mapping[MinOf(keywords)][2]
               ELSE benefit = "I can accomplish my business objectives efficiently"

\* A phrase with "enabling" before "so that" has got the benefit of
\* "so that", and the story holds it
C23_Witness ==
    /\ returned(stories) /\ stories.val # <<>> /\ requirements # <<>>
    /\ requirements[1] = "enabling quick exports so that managers can plan"
    /\ extract_benefit_from_requirement(requirements[1]) = "managers can plan"
    /\ contains(stories.val[1], ", so that managers can plan.")

\* ------------------------------------------------------------------------
\* C24: extract_requirements_from_document returns the first 20 of the
\* candidate phrases in document order: a line gives at most one phrase by
\* the requirement patterns and at most one by the list-item check, the
\* first before the second; the phrases of a line come before those of
\* every later line; a repeated line gives its phrases again.
\* ------------------------------------------------------------------------
C24_DocumentOrder ==
    returned(extracted) =>
        LET lines == split(content, "\n")
            taken(k) == /\ Len(strip(lines[k])) >= 10 /\ ~startswith(strip(lines[k]), "#")
                        /\ feature_focus # "" =>
                               contains(lower(strip(lines[k])), lower(feature_focus))
            by_pattern(k) == phrase_by_pattern(lower(strip(lines[k])), 1)
            by_list_item(k) == phrase_by_list_item(strip(lines[k]))
            candidates == flat([k \in 1..Len(lines) |->
                                  IF taken(k) THEN by_pattern(k) \o by_list_item(k) ELSE <<>>])
        IN /\ \A k \in 1..Len(lines) : Len(by_pattern(k)) <= 1 /\ Len(by_list_item(k)) <= 1
           /\ Len(extracted.val) = min(Len(candidates), 20)
           /\ extracted.val = SubSeq(candidates, 1, Len(extracted.val))

\* Two equal list lines have given the pattern phrase and the list-item
\* phrase of the first, then the same two again
C24_Witness ==
    /\ returned(extracted)
    /\ content = "- the user must be able to login\n- the user must be able to login"
    /\ extracted.val = << "be able to login", "the user must be able to login",
                          "be able to login", "the user must be able to login" >>

\* ------------------------------------------------------------------------
\* C25: of the requirement patterns of extract_requirements_from_document
\* the first in list order that matches a line decides for the line: when
\* its capture is 10 characters or shorter the line gives no pattern
\* phrase, even if a later pattern captures more.
\* ------------------------------------------------------------------------
C25_FirstPatternWins ==
    (returned(extracted) /\ feature_focus = "") =>
        LET lines == split(content, "\n")
        IN \A k \in 1..Len(lines) :
              LET line_lower == lower(strip(lines[k]))
                  matching == {p \in 1..Len(requirement_patterns) :
                                  re_search(requirement_patterns[p], line_lower).ok}
                  derived == phrase_by_pattern(line_lower, 1)
              IN /\ matching = {} => derived = <<>>
                 /\ matching # {} =>
                       LET capture == strip(group1(line_lower,
                                        re_search(requirement_patterns[MinOf(matching)],
                                                  line_lower)))
                       IN /\ Len(capture) <= 10 => derived = <<>>
                          /\ Len(capture) > 10 => derived = <<re_sub(Plus(Sp), " ", capture)>>
                 \* a document of this one line, not a list item
                 /\ (Len(lines) = 1 /\ Len(line_lower) >= 10
                       /\ phrase_by_list_item(strip(lines[k])) = <<>>)
                     => extracted.val = derived

\* "must" has captured "log in" and the line has given nothing, although
\* "feature:" captures the whole rest of the line
C25_Witness ==
    /\ returned(extracted)
    /\ content = "feature: users must log in"
    /\ feature_focus = ""
    /\ extracted.val = <<>>
    /\ re_search(requirement_patterns[5], content).ok

\* ------------------------------------------------------------------------
\* C26: in every analysis returned, user_roles has no entry twice, none of
\* the entries is "user", "system" or "application", every entry is in
\* lowercase and shorter than 20 characters, and the common role names
\* (admin, manager, customer, operator, viewer) are looked up by occurrence
\* in the document only when the role patterns gave no role.
\* ------------------------------------------------------------------------
C26_UserRoles ==
    returned(analysis) =>
        LET user_roles == analysis.val.user_roles
            by_pattern == find_roles(lower(content))
            common == <<"admin", "manager", "customer", "operator", "viewer">>
        IN /\ \A i, j \in 1..Len(user_roles) : user_roles[i] = user_roles[j] => i = j
           /\ \A i \in 1..Len(user_roles) :
                 /\ user_roles[i] \notin {"user", "system", "application"}
                 /\ user_roles[i] = lower(user_roles[i])
                 /\ Len(user_roles[i]) < 20
           /\ by_pattern # <<>> => user_roles = by_pattern
           /\ by_pattern = <<>> =>
                 user_roles = flat([k \in 1..Len(common) |->
                                      IF contains(lower(content), common[k])
                                      THEN <<common[k]>> ELSE <<>>])

\* Two patterns have captured "manager i" and it is listed once
C26_Witness ==
    /\ returned(analysis)
    /\ content = "As a manager I can approve\nThe manager can approve\nuser can login"
    /\ analysis.val.user_roles = <<"manager i", "the manager", "approve\nuser">>

\* ------------------------------------------------------------------------
\* C27: for a document without structure (no header, no requirement line,
\* no role), the document of length zero among them,
\* analyze_document_structure returns empty headers, requirements and
\* user_roles and the complexity level "Medium".
\* ------------------------------------------------------------------------
C27_NoStructureIsMedium ==
    analysis # Pending =>
        /\ content = "" =>
              /\ returned(analysis)
              /\ analysis.val.headers = <<>>
              /\ analysis.val.requirements = <<>>
              /\ analysis.val.user_roles = <<>>
        /\ (/\ returned(analysis)
            /\ analysis.val.headers = <<>>
            /\ analysis.val.requirements = <<>>
            /\ analysis.val.user_roles = <<>>)
           => analysis.val.complexity_level = "Medium"

\* ------------------------------------------------------------------------
\* C28: for non-empty requirements the k-th story returned (k from 1) is
\* made from requirements[k-1] and has the ordinal k in its title, in each
\* of the three formats: the ordinals are 1, 2, 3, ... and the stories are
\* in the order of the requirements.
\* ------------------------------------------------------------------------
C28_OrdinalsAndOrder ==
    (returned(stories) /\ requirements # <<>>) =>
        \A k \in 1..Len(stories.val) :
            /\ startswith(stories.val[k],
                          IF story_format = "agile"
                          THEN "**Story #" \o ToString(k) \o ":** "
                          ELSE "**User Story " \o ToString(k) \o ":**\n")
            /\ contains(stories.val[k],
                        ", I want to " \o extract_action_from_requirement(requirements[k])
                        \o ", so that ")

\* Three agile stories, the third with the ordinal 3 and made from the
\* third requirement
C28_Witness ==
    /\ returned(stories) /\ story_format = "agile" /\ Len(stories.val) = 3
    /\ requirements[1] = "user must export data"
    /\ startswith(stories.val[3], "**Story #3:** Users To Login\n")

\* ------------------------------------------------------------------------
\* C29: for non-empty requirements and max_stories of 0 or less
\* generate_user_stories returns the empty list: no story, no default
\* story, no exception.
\* ------------------------------------------------------------------------
C29_NoStoriesForNoLimit ==
    (stories # Pending /\ requirements # <<>> /\ max_stories <= 0)
        => stories = Return(<<>>)

\* Several requirements, no persona and max_stories -1: the empty list
C29_Witness ==
    /\ Len(requirements) >= 2 /\ user_personas = <<>> /\ max_stories = -1
    /\ stories = Return(<<>>)

\* The lines of the document that qualify as requirements for the focus
qualifying_lines(text, focus) ==
    SelectSeq(gdoc_requirements(text),
              LAMBDA req : focus = "" \/ contains(lower(req), lower(focus)))

numbered_in_order(made, qualifying) ==
    IF qualifying = <<>> THEN made = generate_default_stories /\ Len(made) = 2
    ELSE /\ Len(made) = (IF Len(qualifying) < 5 THEN Len(qualifying) ELSE 5)
         /\ \A k \in 1..Len(made) :
                /\ startswith(made[k], "**User Story " \o ToString(k) \o ":**\n")
                /\ contains(made[k],
                            "I want to " \o gdoc_extract_action_from_requirement(qualifying[k])
                            \o ", so that ")

\* C30: the generate_user_stories tool of server.py, once the document is
\* fetched, answers with the stories of generate_stories_from_content, which
\* are never none: for n >= 1 qualifying lines after the focus filter they
\* are min(n, 5) stories numbered 1..min(n, 5) that follow the lines in
\* document order, and for no qualifying line they are the 2 default stories.
C30_NeverNoStories ==
    (pc = "done" /\ tool = "generate_user_stories" /\ fetches = 1
     /\ response.exc = "" /\ response.status = 200) =>
        LET text == extract_text_from_doc(response.json)
            focus == get_or(args, "feature_focus", "")
            made == generate_stories_from_content(text, focus)
        IN /\ made # <<>>
           /\ numbered_in_order(made, qualifying_lines(text, focus))
           /\ ~result.isError
           /\ result.content[1].text =
                  "Generated User Stories from: "
                  \o (IF response.json.title = None THEN "Untitled" ELSE response.json.title[1])
                  \o "\n\n" \o join("\n\n", made)

\* Six qualifying lines and no focus: five stories, the fifth from the fifth line
C30_Witness ==
    /\ pc = "done" /\ tool = "generate_user_stories" /\ response.status = 200
    /\ response.json.title = <<"Backlog">> /\ get_or(args, "feature_focus", "") = ""
    /\ Len(qualifying_lines(extract_text_from_doc(response.json), "")) = 6
    /\ Len(generate_stories_from_content(extract_text_from_doc(response.json), "")) = 5
    /\ contains(result.content[1].text, "**User Story 5:**\nAs a user, I want to ")
    /\ ~contains(result.content[1].text, "**User Story 6:**")

====
